---- MODULE Spec2Model ----
(***************************************************************************)
(* Model of ht's record/stream modes: the startup orchestrator             *)
(* (run_record_mode / run_stream_mode), the main event loop                *)
(* (run_event_loop), the session event bus with its broadcast channel,     *)
(* and the run loops of the file recorder and the server streamer.         *)
(***************************************************************************)
EXTENDS Integers, Sequences, FiniteSets, TLC

\* ------------------------------------------------------------------ bounds
\* Chunks of output the PTY produces in one run.
MaxChunks == 1
\* Commands the stdio API sends in one run.
MaxCmds == 1
\* Capacity of the session's broadcast channel (1024 in the program, scaled).
BroadcastCap == 1

\* Ticks of the monotonic clock in the encoder harness.
MaxTime == 2
\* Events delivered to the encoders in the harness, over all runs.
MaxEvents == 3
\* Runs of the recorder on the same path in the harness.
MaxRuns == 2
\* events the session publishes when it is driven as a component
MaxPub == 3
\* longest colour string given to parse_color
MaxColorLen == 7
\* longest palette of a theme
MaxPalette == 17
\* largest of the consecutive values given to encode_leb128
MaxLebValue == 16384

\* --------------------------------------------------------------- constants
\* mpsc::channel(1) of client (subscription) requests.
ClientsCap == 1

\* The encoder task (recorder or streamer) and the stdio API task; the HTTP API
\* is not listening (cli.listen = None).
Clients == {"enc", "api"}
Statuses == {0, 3}
CommandKinds == {"Input", "Snapshot", "Resize", "Marker"}
\* What the PTY task's JoinHandle yields: Ok(Ok(status)), or a failure (Ok(Err(e))
\* or a JoinError, which run_event_loop handles alike).
PtyResults == [kind : {"ok"}, status : Statuses] \cup {[kind |-> "err", status |-> 0]}
NoResult == [kind |-> "none", status |-> 0]

\* The command lines explored. A recorder is built with header_written = FALSE,
\* so --append changes nothing in one run of the program; it is taken as given.
Configs == [mode : {"record"}, protocol : {"file"}, capture_input : BOOLEAN, append : {TRUE}]
             \cup [mode : {"stream"}, protocol : {"alis", "v3"}, capture_input : BOOLEAN,
                   append : {FALSE}]

VARIABLES
    cfg,            \* the command line: mode, protocol, capture_input, append
    mainPc,         \* position of the orchestrator (main task)
    exit_status,    \* run_event_loop's local exit_status
    serving,        \* run_event_loop's local serving
    exitCode,       \* the process exit code, -1 while the process runs
    brokeBy,        \* the select branch that broke the loop, "none" before
    clientsQ,       \* the clients channel: pending subscription requests
    subPc,          \* per client task: its position
    initPending,    \* per client: the synthesized Init is not yet consumed
    pos,            \* per client: events of pub its receiver has passed
    subAt,          \* per client: Len(pub) when its subscribe() ran
    initSnap,       \* per client: the size and pid its synthesized Init carries
    recvd,          \* per client: what its current event stream has yielded
    pub,            \* every event the session has published, in order
    busClosed,      \* the session (broadcast sender) has been dropped
    pid,            \* the session's pid
    ready,          \* the ready one-shot: "pending", "sent" or "dropped"
    ptyPc,          \* "none" before start_pty, then "running"
    outQ,           \* the PTY output channel
    outClosed,      \* the PTY task has dropped its output sender
    ptyRes,         \* the PTY task's result once its JoinHandle is ready
    chunks,         \* chunks the PTY has produced
    cmds,           \* commands the loop has taken
    inputFwd,       \* Input commands forwarded to the PTY
    sink,           \* what the encoder has written (file lines / WebSocket frames)
    header_written, \* the recorder's header_written field
    \* -- the encoder harness: one recorder and one streamer per protocol, fed the
    \* -- same events (used by FormatSpec only)
    now,            \* the monotonic clock (Instant::now()), in ticks
    opt,            \* the options: append, idle_time_limit, capture_input
    rec,            \* the AsciicastV3Recorder's fields
    file,           \* the lines of the recording file
    runStart,       \* Len(file) when the current recorder was constructed
    stm,            \* per protocol: the AsciinemaServerStreamer's fields
    alisFrames,     \* binary frames the ALiS streamer has sent in this run
    v3Frames,       \* text frames the asciicast-v3 streamer has sent in this run
    ev,             \* the item the event stream yielded last
    delivered,      \* items the event streams have yielded, over all runs
    runs,           \* recorders constructed so far
    trail,          \* history: when each encoder last emitted in this run, Inits seen
    \* -- the ALiS codec harness (used by CodecSpec only)
    arg,            \* the input: a colour string or an optional theme
    res,            \* the function applied, its Result, the frames the streamer sent
    \* -- the local ALiS WebSocket handlers (used by LocalSpec only)
    loc             \* per handler: its position, the frames sent, its AlisState

codecVars == <<arg, res, loc>>

fmtVars == <<now, opt, rec, file, runStart, stm, alisFrames, v3Frames, ev, delivered, runs,
             trail, codecVars>>

progVars == <<cfg, mainPc, exit_status, serving, exitCode, brokeBy, clientsQ, subPc,
              initPending, pos, subAt, initSnap, recvd, pub, busClosed, pid, ready, ptyPc,
              outQ,              outClosed, ptyRes, chunks, cmds, inputFwd, sink, header_written>>

vars == <<progVars, fmtVars>>

mainVars == <<mainPc, exit_status, serving, exitCode>>
ptyVars == <<ptyPc, outQ, outClosed, ptyRes, chunks>>
streamVars == <<initPending, pos, subAt, initSnap, recvd>>
encVars == <<sink, header_written>>

\* ----------------------------------------------------------------- helpers
Item(k, v) == [k |-> k, v |-> v]
InitItem == Item("Init", 0)
Ev(t, s) == [type |-> t, status |-> s]

\* The process is alive: main has neither returned nor called process::exit.
Alive == exitCode = -1

EncEnded == subPc["enc"] \in {"ok", "err"}

\* Every clone of clients_tx has been dropped: the tasks owning them are over.
ClientSendersGone == /\ EncEnded
                     /\ subPc["api"] = "ended"

\* The session's dimensions. Size 0 is the configured one, given to Session::new;
\* the n-th Resize command asks for size n, and Session::resize stores it before
\* it publishes the Resize event.
SessionSize == Cardinality({i \in 1..Len(pub) : pub[i].type = "Resize"})

\* Mutant: the Init is built from what Session::new was given.
Subscribe_InitialState(c) ==
    /\ subPc' = [subPc EXCEPT ![c] = IF c = "enc" THEN "accepted" ELSE "open"]
    /\ initPending' = [initPending EXCEPT ![c] = TRUE]
    /\ pos' = [pos EXCEPT ![c] = Len(pub)]
    /\ subAt' = [subAt EXCEPT ![c] = Len(pub)]
    /\ initSnap' = [initSnap EXCEPT ![c] = [size |-> 0, pid |-> 0]]
    /\ recvd' = [recvd EXCEPT ![c] = <<>>]

\* Session::subscribe plus Client::accept: the requester's stream starts with a
\* synthesized Init built from the session's current size and pid, and continues at
\* the current tail of the broadcast channel.
Subscribe(c) ==
    /\ subPc' = [subPc EXCEPT ![c] = IF c = "enc" THEN "accepted" ELSE "open"]
    /\ initPending' = [initPending EXCEPT ![c] = TRUE]
    /\ pos' = [pos EXCEPT ![c] = Len(pub)]
    /\ subAt' = [subAt EXCEPT ![c] = Len(pub)]
    /\ initSnap' = [initSnap EXCEPT ![c] = [size |-> SessionSize, pid |-> pid]]
    /\ recvd' = [recvd EXCEPT ![c] = <<>>]

\* A session mutator: stamp the event and push it to the broadcast channel.
\* broadcast::Sender::send never waits for a receiver.
Publish(e) == pub' = Append(pub, e)

ProgInit ==
    /\ cfg \in Configs
    /\ mainPc = "recv_client"
    /\ exit_status = 0
    /\ serving = TRUE
    /\ exitCode = -1
    /\ brokeBy = "none"
    /\ clientsQ = <<>>
    /\ subPc = [c \in Clients |-> IF c = "enc" /\ cfg.mode = "stream" THEN "connect" ELSE "idle"]
    /\ initPending = [c \in Clients |-> FALSE]
    /\ pos = [c \in Clients |-> 0]
    /\ subAt = [c \in Clients |-> 0]
    /\ initSnap = [c \in Clients |-> [size |-> 0, pid |-> 0]]
    /\ recvd = [c \in Clients |-> <<>>]
    /\ pub = <<>>
    /\ busClosed = FALSE
    /\ pid = 0
    /\ ready = "pending"
    /\ ptyPc = "none"
    /\ outQ = <<>>
    /\ outClosed = FALSE
    /\ ptyRes = NoResult
    /\ chunks = 0
    /\ cmds = 0
    /\ inputFwd = 0
    /\ sink = <<>>
    /\ header_written = FALSE

\* Option<T>
None == [some |-> FALSE, v |-> 0]
Some(x) == [some |-> TRUE, v |-> x]

\* asciicast_v3.rs:51-57  AsciicastV3Recorder::new (start_time is never read);
\* buf holds the lines in the BufWriter that have not reached the file
NewRecorder == [header_written |-> FALSE, last_event_time |-> None, buf |-> <<>>]

\* asciinema_server.rs:58-65  AsciinemaServerStreamer::new
NewStreamer == [event_id |-> 0, last_event_time |-> None]

NoEvent == Ev("none", 0)

\* Nothing emitted, no Init seen in this run.
NoTrail == [rec |-> None, alis |-> None, inits |-> 0]

\* The encoder harness at rest, as it stays in every behaviour of Spec.
FmtIdle ==
    /\ now = 0
    /\ opt = [append |-> FALSE, idle_time_limit |-> None, capture_input |-> FALSE]
    /\ rec = NewRecorder
    /\ file = <<>>
    /\ runStart = 0
    /\ stm = [p \in {"alis", "v3"} |-> NewStreamer]
    /\ alisFrames = <<>>
    /\ v3Frames = <<>>
    /\ ev = NoEvent
    /\ delivered = 0
    /\ runs = 1
    /\ trail = NoTrail

\* anyhow::Result<Vec<u8>>, Result<[u8; 3]>: Ok(bytes) or Err(_)
Ok(bytes) == [ok |-> TRUE, val |-> bytes]
Err == [ok |-> FALSE, val |-> <<>>]

\* alis_local.rs:44-50  AlisState::new
NewAlisState == [event_id |-> 0, last_event_time |-> None]

\* alis_local.rs:11-22, 118-132  both local handlers once the magic string is sent
\* and the stream obtained
NewLocal == [h \in {"stateless", "stateful"} |-> [pc |-> "run", sent |-> <<>>, st |-> NewAlisState]]

\* No function of the codec has been applied.
Unset == [fn |-> "none", r |-> Ok(<<>>), sent |-> <<>>]

\* Option<&Theme>::None
NoTheme == [some |-> FALSE, v |-> [fg |-> <<>>, bg |-> <<>>, palette |-> <<>>]]

\* The codec harness at rest, as it stays in every behaviour of Spec.
CodecIdle ==
    /\ arg = [kind |-> "theme", v |-> NoTheme]
    /\ res = Unset
    /\ loc = NewLocal

Init == ProgInit /\ FmtIdle /\ CodecIdle

\* ------------------------------------------------------ startup orchestrator
\* main.rs:154-156  if let Some(client) = clients_rx.recv().await { accept }
MainRecvClient ==
    /\ Alive /\ mainPc = "recv_client"
    /\ clientsQ # <<>>
    /\ Subscribe(Head(clientsQ))
    /\ clientsQ' = Tail(clientsQ)
    /\ mainPc' = "await_ready"
    /\ UNCHANGED <<fmtVars, cfg, brokeBy, exit_status, serving, exitCode, pub, busClosed, pid, ready,
                   ptyVars, cmds, inputFwd, encVars>>

\* main.rs:154  recv() yields None once every sender is gone.
MainRecvNone ==
    /\ Alive /\ mainPc = "recv_client"
    /\ clientsQ = <<>> /\ ClientSendersGone
    /\ mainPc' = "await_ready"
    /\ UNCHANGED <<fmtVars, cfg, brokeBy, exit_status, serving, exitCode, clientsQ, subPc, streamVars,
                   pub, busClosed, pid, ready, ptyVars, cmds, inputFwd, encVars>>

\* Mutant: the orchestrator does not wait for the ready signal.
MainAwaitReady_NoBarrier ==
    /\ Alive /\ mainPc = "await_ready"
    /\ mainPc' = "spawn"
    /\ UNCHANGED <<fmtVars, cfg, brokeBy, exit_status, serving, exitCode, clientsQ, subPc, streamVars,
                   pub, busClosed, pid, ready, ptyVars, cmds, inputFwd, encVars>>

\* main.rs:159  ready_rx.await.context(..)?
MainAwaitReady ==
    /\ Alive /\ mainPc = "await_ready"
    /\ \/ /\ ready = "sent"
          /\ mainPc' = "spawn"
          /\ exitCode' = exitCode
       \/ /\ ready = "dropped"
          /\ mainPc' = "failed"
          /\ exitCode' = 1
    /\ UNCHANGED <<fmtVars, cfg, brokeBy, exit_status, serving, clientsQ, subPc, streamVars, pub,
                   busClosed, pid, ready, ptyVars, cmds, inputFwd, encVars>>

\* main.rs:161-164  start_pty(..)? ; session.set_pid(pid)
MainStartPty ==
    /\ Alive /\ mainPc = "spawn"
    /\ \E ok \in BOOLEAN :
         IF ok
         THEN /\ ptyPc' = "running"
              /\ pid' = 1
              /\ mainPc' = "loop"
              /\ exitCode' = exitCode
         ELSE /\ mainPc' = "failed"
              /\ exitCode' = 1
              /\ UNCHANGED <<ptyPc, pid>>
    /\ UNCHANGED <<fmtVars, cfg, brokeBy, exit_status, serving, clientsQ, subPc, streamVars, pub,
                   busClosed, ready, outQ, outClosed, ptyRes, chunks, cmds, inputFwd, encVars>>

\* ----------------------------------------------------------- main event loop
InLoop == Alive /\ mainPc = "loop"

\* Mutant: publishing waits until every subscriber has room (a bounded queue
\* with back-pressure in place of the broadcast channel).
LoopOutput_Blocking ==
    /\ InLoop
    /\ outQ # <<>>
    /\ \A c \in Clients : (initPending[c] \/ recvd[c] # <<>>) => Len(pub) - pos[c] < BroadcastCap
    /\ Publish(Ev("Output", 0))
    /\ outQ' = Tail(outQ)
    /\ UNCHANGED <<fmtVars, cfg, brokeBy, mainVars, clientsQ, subPc, streamVars, busClosed, pid, ready,
                   ptyPc, outClosed, ptyRes, chunks, cmds, inputFwd, encVars>>

\* main.rs:360-364  output_rx.recv() => Some(data): session.output(data)
LoopOutput ==
    /\ InLoop
    /\ outQ # <<>>
    /\ Publish(Ev("Output", 0))
    /\ outQ' = Tail(outQ)
    /\ UNCHANGED <<fmtVars, cfg, brokeBy, mainVars, clientsQ, subPc, streamVars, busClosed, pid, ready,
                   ptyPc, outClosed, ptyRes, chunks, cmds, inputFwd, encVars>>

\* main.rs:366-369  output_rx.recv() => None: break
LoopOutputClosed ==
    /\ InLoop
    /\ outQ = <<>> /\ outClosed
    /\ mainPc' = "sleep"
    /\ brokeBy' = "output"
    /\ UNCHANGED <<fmtVars, cfg, exit_status, serving, exitCode, clientsQ, subPc, streamVars,
                   pub, busClosed, pid, ready, ptyVars, cmds, inputFwd, encVars>>

\* Mutant: the input is forwarded only when it is captured.
LoopInput_ForwardOnlyIfCaptured ==
    /\ pub' = IF cfg.capture_input THEN Append(pub, Ev("Input", 0)) ELSE pub
    /\ IF cfg.capture_input /\ ptyRes = NoResult
       THEN /\ inputFwd' = inputFwd + 1
            /\ UNCHANGED <<mainPc, exitCode>>
       ELSE IF cfg.capture_input
       THEN /\ mainPc' = "failed"
            /\ exitCode' = 1
            /\ UNCHANGED inputFwd
       ELSE UNCHANGED <<mainPc, exitCode, inputFwd>>

\* main.rs:375-384  Command::Input: session.input if capturing; input_tx.send(data).await?
\* The send fails once the PTY task is over and has dropped input_rx.
LoopInput ==
    /\ pub' = IF cfg.capture_input THEN Append(pub, Ev("Input", 0)) ELSE pub
    /\ IF ptyRes = NoResult
       THEN /\ inputFwd' = inputFwd + 1
            /\ UNCHANGED <<mainPc, exitCode>>
       ELSE /\ mainPc' = "failed"
            /\ exitCode' = 1
            /\ UNCHANGED inputFwd

\* main.rs:386-396  Snapshot / Resize / Marker: the session mutator of the same name
LoopMutator(kind) ==
    /\ Publish(Ev(kind, 0))
    /\ UNCHANGED <<mainPc, exitCode, inputFwd>>

\* main.rs:373-397  command_rx.recv() => Some(command)
LoopCommand ==
    /\ InLoop
    /\ subPc["api"] = "open"
    /\ cmds < MaxCmds
    /\ cmds' = cmds + 1
    /\ \E kind \in CommandKinds :
         IF kind = "Input" THEN LoopInput ELSE LoopMutator(kind)
    /\ UNCHANGED <<fmtVars, cfg, brokeBy, exit_status, serving, clientsQ, subPc, streamVars, busClosed,
                   pid, ready, ptyVars, encVars>>

\* main.rs:398-401  command_rx.recv() => None: break
LoopCommandClosed ==
    /\ InLoop
    /\ subPc["api"] = "ended"
    /\ mainPc' = "sleep"
    /\ brokeBy' = "stdin"
    /\ UNCHANGED <<fmtVars, cfg, exit_status, serving, exitCode, clientsQ, subPc, streamVars,
                   pub, busClosed, pid, ready, ptyVars, cmds, inputFwd, encVars>>

\* Mutant: the client is handed a bare broadcast receiver, without the Init.
LoopClient_NoInit ==
    /\ InLoop
    /\ serving
    /\ clientsQ # <<>>
    /\ subPc' = [subPc EXCEPT ![Head(clientsQ)] = "open"]
    /\ pos' = [pos EXCEPT ![Head(clientsQ)] = Len(pub)]
    /\ subAt' = [subAt EXCEPT ![Head(clientsQ)] = Len(pub)]
    /\ initSnap' = [initSnap EXCEPT ![Head(clientsQ)] = [size |-> SessionSize, pid |-> pid]]
    /\ recvd' = [recvd EXCEPT ![Head(clientsQ)] = <<>>]
    /\ clientsQ' = Tail(clientsQ)
    /\ UNCHANGED <<fmtVars, cfg, brokeBy, mainVars, initPending, pub, busClosed, pid, ready, ptyVars,
                   cmds, inputFwd, encVars>>

\* Mutant: the client is handed a receiver that starts at the oldest event.
LoopClient_Replay ==
    /\ InLoop
    /\ serving
    /\ clientsQ # <<>>
    /\ subPc' = [subPc EXCEPT ![Head(clientsQ)] = "open"]
    /\ initPending' = [initPending EXCEPT ![Head(clientsQ)] = TRUE]
    /\ pos' = [pos EXCEPT ![Head(clientsQ)] = 0]
    /\ subAt' = [subAt EXCEPT ![Head(clientsQ)] = Len(pub)]
    /\ initSnap' = [initSnap EXCEPT ![Head(clientsQ)] = [size |-> SessionSize, pid |-> pid]]
    /\ recvd' = [recvd EXCEPT ![Head(clientsQ)] = <<>>]
    /\ clientsQ' = Tail(clientsQ)
    /\ UNCHANGED <<fmtVars, cfg, brokeBy, mainVars, pub, busClosed, pid, ready, ptyVars, cmds,
                   inputFwd, encVars>>

\* main.rs:405-409  clients_rx.recv(), if serving => Some(client): accept(subscribe())
LoopClient ==
    /\ InLoop
    /\ serving
    /\ clientsQ # <<>>
    /\ Subscribe(Head(clientsQ))
    /\ clientsQ' = Tail(clientsQ)
    /\ UNCHANGED <<fmtVars, cfg, brokeBy, mainVars, pub, busClosed, pid, ready, ptyVars, cmds, inputFwd,
                   encVars>>

\* main.rs:411-413  clients_rx.recv(), if serving => None: serving = false
LoopClientsClosed ==
    /\ InLoop
    /\ serving
    /\ clientsQ = <<>> /\ ClientSendersGone
    /\ serving' = FALSE
    /\ UNCHANGED <<fmtVars, cfg, brokeBy, mainPc, exit_status, exitCode, clientsQ, subPc, streamVars,
                   pub, busClosed, pid, ready, ptyVars, cmds, inputFwd, encVars>>

\* main.rs:417-420  &mut api_handle => break
LoopApiDone ==
    /\ InLoop
    /\ subPc["api"] = "ended"
    /\ mainPc' = "sleep"
    /\ brokeBy' = "stdin"
    /\ UNCHANGED <<fmtVars, cfg, exit_status, serving, exitCode, clientsQ, subPc, streamVars,
                   pub, busClosed, pid, ready, ptyVars, cmds, inputFwd, encVars>>

\* Mutant: the pty_handle arm publishes Exit but does not break.
LoopPtyDone_NoBreak ==
    /\ InLoop
    /\ ptyRes # NoResult
    /\ exit_status' = IF ptyRes.kind = "ok" THEN ptyRes.status ELSE 1
    /\ Publish(Ev("Exit", exit_status'))
    /\ UNCHANGED <<fmtVars, cfg, brokeBy, mainPc, serving, exitCode, clientsQ, subPc, streamVars,
                   busClosed, pid, ready, ptyVars, cmds, inputFwd, encVars>>

\* main.rs:422-443  &mut pty_handle => set exit_status, session.exit(..), break
LoopPtyDone ==
    /\ InLoop
    /\ ptyRes # NoResult
    /\ exit_status' = IF ptyRes.kind = "ok" THEN ptyRes.status ELSE 1
    /\ Publish(Ev("Exit", exit_status'))
    /\ mainPc' = "sleep"
    /\ brokeBy' = "pty"
    /\ UNCHANGED <<fmtVars, cfg, serving, exitCode, clientsQ, subPc, streamVars, busClosed,
                   pid, ready, ptyVars, cmds, inputFwd, encVars>>

\* main.rs:447-450  sleep(100ms); Ok(exit_status): the session and clients_rx are dropped
MainLoopReturn ==
    /\ Alive /\ mainPc = "sleep"
    /\ mainPc' = "join"
    /\ busClosed' = TRUE
    /\ UNCHANGED <<fmtVars, cfg, brokeBy, exit_status, serving, exitCode, clientsQ, subPc, streamVars,
                   pub, pid, ready, ptyVars, cmds, inputFwd, encVars>>

\* main.rs:178-180  recorder_handle.await??; std::process::exit(exit_status)
MainJoin ==
    /\ Alive /\ mainPc = "join"
    /\ EncEnded
    /\ IF subPc["enc"] = "ok"
       THEN mainPc' = "exited" /\ exitCode' = exit_status
       ELSE mainPc' = "failed" /\ exitCode' = 1
    /\ UNCHANGED <<fmtVars, cfg, brokeBy, exit_status, serving, clientsQ, subPc, streamVars, pub,
                   busClosed, pid, ready, ptyVars, cmds, inputFwd, encVars>>

\* ---------------------------------------------------------------- PTY task
\* The PTY shuttle puts a chunk of the child's output on the output channel.
PtyOutput ==
    /\ Alive /\ ptyPc = "running"
    /\ ~outClosed /\ ptyRes = NoResult
    /\ chunks < MaxChunks
    /\ chunks' = chunks + 1
    /\ outQ' = Append(outQ, chunks + 1)
    /\ UNCHANGED <<fmtVars, cfg, brokeBy, mainVars, clientsQ, subPc, streamVars, pub, busClosed, pid,
                   ready, ptyPc, outClosed, ptyRes, cmds, inputFwd, encVars>>

\* The child is gone and the PTY task drops its output sender.
PtyCloseOutput ==
    /\ Alive /\ ptyPc = "running"
    /\ ~outClosed
    /\ outClosed' = TRUE
    /\ UNCHANGED <<fmtVars, cfg, brokeBy, mainVars, clientsQ, subPc, streamVars, pub, busClosed, pid,
                   ready, ptyPc, outQ, ptyRes, chunks, cmds, inputFwd, encVars>>

\* The PTY task completes: Ok(Ok(status)), Ok(Err(e)) or a JoinError.
PtyComplete ==
    /\ Alive /\ ptyPc = "running"
    /\ ptyRes = NoResult
    /\ ptyRes' \in PtyResults
    /\ UNCHANGED <<fmtVars, cfg, brokeBy, mainVars, clientsQ, subPc, streamVars, pub, busClosed, pid,
                   ready, ptyPc, outQ, outClosed, chunks, cmds, inputFwd, encVars>>

\* --------------------------------------------------- subscriber event streams
\* What the next poll of c's event stream yields: the chained Init first, then
\* the broadcast receiver: Lagged(n) when more than BroadcastCap events are
\* pending (the receiver then resumes at the oldest retained event), the next
\* event, or the end of the stream once the session is dropped and all is read.
Pending(c) == Len(pub) - pos[c]

NextItem(c) ==
    IF initPending[c] THEN InitItem
    ELSE IF Pending(c) > BroadcastCap THEN Item("Lagged", Pending(c) - BroadcastCap)
    ELSE IF Pending(c) > 0 THEN Item("Ev", pos[c] + 1)
    ELSE IF busClosed THEN Item("End", 0)
    ELSE Item("Wait", 0)

\* Mutant: the receiver's cursor does not move past a delivered event.
Advance_Redeliver(c) ==
    LET it == NextItem(c) IN
    /\ initPending' = [initPending EXCEPT ![c] = FALSE]
    /\ pos' = [pos EXCEPT ![c] = IF it.k = "Lagged" THEN pos[c] + it.v ELSE pos[c]]
    /\ recvd' = [recvd EXCEPT ![c] = IF it.k = "End" THEN recvd[c] ELSE Append(recvd[c], it)]
    /\ UNCHANGED <<subAt, initSnap>>

\* Mutant: on Lagged the cursor skips one event more than it reports.
Advance_LagOffByOne(c) ==
    LET it == NextItem(c) IN
    /\ initPending' = [initPending EXCEPT ![c] = FALSE]
    /\ pos' = [pos EXCEPT ![c] = IF it.k = "Lagged" THEN pos[c] + it.v + 1
                                 ELSE IF it.k = "Ev" THEN it.v
                                 ELSE pos[c]]
    /\ recvd' = [recvd EXCEPT ![c] = IF it.k = "End" THEN recvd[c] ELSE Append(recvd[c], it)]
    /\ UNCHANGED <<subAt, initSnap>>

\* The stream's state after it has yielded NextItem(c).
Advance(c) ==
    LET it == NextItem(c) IN
    /\ initPending' = [initPending EXCEPT ![c] = FALSE]
    /\ pos' = [pos EXCEPT ![c] = IF it.k = "Lagged" THEN pos[c] + it.v
                                 ELSE IF it.k = "Ev" THEN it.v
                                 ELSE pos[c]]
    /\ recvd' = [recvd EXCEPT ![c] = IF it.k = "End" THEN recvd[c] ELSE Append(recvd[c], it)]
    /\ UNCHANGED <<subAt, initSnap>>

\* session::stream: send a Client on the clients channel (waits while it is full).
SubRequest(c) ==
    /\ Alive /\ subPc[c] = "idle"
    /\ ~busClosed
    /\ Len(clientsQ) < ClientsCap
    /\ clientsQ' = Append(clientsQ, c)
    /\ subPc' = [subPc EXCEPT ![c] = "waiting"]
    /\ UNCHANGED <<fmtVars, cfg, brokeBy, mainVars, streamVars, pub, busClosed, pid, ready, ptyVars, cmds,
                   inputFwd, encVars>>

\* session::stream fails once run_event_loop has returned and dropped clients_rx
\* (the send fails, or the pending Client is dropped unanswered): the task ends.
SubRequestFail(c) ==
    /\ Alive /\ subPc[c] \in {"idle", "waiting"}
    /\ busClosed
    /\ subPc' = [subPc EXCEPT ![c] = IF c = "enc" THEN "err" ELSE "ended"]
    /\ ready' = IF c = "enc" THEN "dropped" ELSE ready
    /\ UNCHANGED <<fmtVars, cfg, brokeBy, mainVars, clientsQ, streamVars, pub, busClosed, pid, ptyVars,
                   cmds, inputFwd, encVars>>

\* The stdio API task polls its event stream.
ObserverRecv(c) ==
    /\ Alive /\ c # "enc" /\ subPc[c] = "open"
    /\ NextItem(c).k # "Wait"
    /\ Advance(c)
    /\ subPc' = [subPc EXCEPT ![c] = IF NextItem(c).k = "End" THEN "ended" ELSE "open"]
    /\ UNCHANGED <<fmtVars, cfg, brokeBy, mainVars, clientsQ, pub, busClosed, pid, ready, ptyVars,
                   cmds, inputFwd, encVars>>

\* The stdio API task ends (stdin is closed, or it fails before it subscribes),
\* dropping command_tx and clients_tx.
StdioEnd ==
    /\ Alive /\ subPc["api"] \in {"idle", "open"}
    /\ subPc' = [subPc EXCEPT !["api"] = "ended"]
    /\ UNCHANGED <<fmtVars, cfg, brokeBy, mainVars, clientsQ, streamVars, pub, busClosed, pid, ready,
                   ptyVars, cmds, inputFwd, encVars>>

\* Mutant: the streamer subscribes without sending the magic frame.
EncConnect_NoMagic ==
    /\ Alive /\ subPc["enc"] = "connect"
    /\ subPc' = [subPc EXCEPT !["enc"] = "idle"]
    /\ UNCHANGED <<fmtVars, cfg, brokeBy, mainVars, clientsQ, streamVars, pub, busClosed, pid,
                   ready, ptyVars, cmds, inputFwd, encVars>>

\* ------------------------------------------------------ recorder and streamer
\* asciinema_server.rs:68-84  install-id, create_stream, connect_websocket, magic
EncConnect ==
    /\ Alive /\ subPc["enc"] = "connect"
    /\ \E ok \in BOOLEAN :
         IF ok
         THEN /\ subPc' = [subPc EXCEPT !["enc"] = "idle"]
              /\ sink' = IF cfg.protocol = "alis" THEN <<Item("magic", 0)>> ELSE sink
              /\ ready' = ready
         ELSE /\ subPc' = [subPc EXCEPT !["enc"] = "err"]
              /\ ready' = "dropped"
              /\ sink' = sink
    /\ UNCHANGED <<fmtVars, cfg, brokeBy, mainVars, clientsQ, streamVars, pub, busClosed, pid, ptyVars,
                   cmds, inputFwd, header_written>>

\* The encoder signals ready once session::stream has returned its stream.
EncSignalReady ==
    /\ Alive /\ subPc["enc"] = "accepted"
    /\ subPc' = [subPc EXCEPT !["enc"] = "open"]
    /\ ready' = "sent"
    /\ UNCHANGED <<fmtVars, cfg, brokeBy, mainVars, clientsQ, streamVars, pub, busClosed, pid, ptyVars,
                   cmds, inputFwd, encVars>>

\* The letter an event is encoded under, "" when the encoder ignores it.
\* asciicast_v3.rs:96-124, asciinema_server.rs:230-267 and 317-351
EventCode(e) ==
    CASE e.type = "Output" -> "o"
      [] e.type = "Resize" -> "r"
      [] e.type = "Marker" -> "m"
      [] e.type = "Input" -> IF cfg.capture_input THEN "i" ELSE ""
      [] e.type = "Exit" -> "x"
      [] OTHER -> ""

\* asciicast_v3.rs:84-94  the recorder's Init arm
RecorderInit == IF ~header_written \/ ~cfg.append THEN <<Item("hdr", 0)>> ELSE <<>>

\* asciinema_server.rs:214-228 and 277-315  the streamer's Init arms
StreamerInit == IF cfg.protocol = "alis" THEN <<Item("init", 0)>>
                ELSE <<Item("hdr", 0), Item("o", 0)>>

\* handle_event / encode_event: the lines or frames an event is written as.
Encode(it) ==
    IF it.k = "Init" THEN (IF cfg.mode = "record" THEN RecorderInit ELSE StreamerInit)
    ELSE IF EventCode(pub[it.v]) = "" THEN <<>>
    ELSE <<Item(EventCode(pub[it.v]), it.v)>>

\* Mutant: a failed write or send is ignored and the loop goes on.
EncEvent_IgnoresError(it) ==
    \E k \in 0..Len(Encode(it)) :
        /\ sink' = sink \o SubSeq(Encode(it), 1, k)
        /\ subPc' = subPc
        /\ header_written' = (header_written \/
                                (it.k = "Init" /\ cfg.mode = "record" /\ k = 1))

\* asciicast_v3.rs:68-70, asciinema_server.rs:91-99  Ok(event): encode and write
\* it; the first failed write or send ends the task with the error. Encoding
\* itself cannot fail here: run_stream_mode builds the theme with an empty
\* palette (main.rs:207-215), for which encode_theme parses no colour.
EncEvent(it) ==
    \E k \in 0..Len(Encode(it)) :
        /\ sink' = sink \o SubSeq(Encode(it), 1, k)
        /\ subPc' = [subPc EXCEPT !["enc"] = IF k = Len(Encode(it)) THEN "open" ELSE "err"]
        /\ header_written' = (header_written \/
                                (it.k = "Init" /\ cfg.mode = "record" /\ k = 1))

\* Mutant: a Lagged signal is returned as an error.
EncLagged_Fatal ==
    /\ subPc' = [subPc EXCEPT !["enc"] = "err"]
    /\ UNCHANGED encVars

\* asciicast_v3.rs:71-74, asciinema_server.rs:100-103  Err(_): lagged, continue
EncLagged ==
    /\ subPc' = subPc
    /\ UNCHANGED encVars

\* asciicast_v3.rs:78-79, asciinema_server.rs:108-110  end of stream: flush the file
\* (every line was flushed when written) or close the WebSocket (.ok()), then Ok
EncEnd ==
    /\ subPc' = [subPc EXCEPT !["enc"] = "ok"]
    /\ sink' = IF cfg.mode = "stream" THEN Append(sink, Item("close", 0)) ELSE sink
    /\ UNCHANGED header_written

\* asciicast_v3.rs:66-76, asciinema_server.rs:89-105  one round of the run loop
EncRecv ==
    /\ Alive /\ subPc["enc"] = "open"
    /\ NextItem("enc").k # "Wait"
    /\ Advance("enc")
    /\ CASE NextItem("enc").k = "Lagged" -> EncLagged
         [] NextItem("enc").k = "End" -> EncEnd
         [] OTHER -> EncEvent(NextItem("enc"))
    /\ UNCHANGED <<fmtVars, cfg, brokeBy, mainVars, clientsQ, pub, busClosed, pid, ready, ptyVars,
                   cmds, inputFwd>>

\* ------------------------------------------------------------ specification
Next ==
    \/ MainRecvClient \/ MainRecvNone \/ MainAwaitReady \/ MainStartPty
    \/ LoopOutput \/ LoopOutputClosed \/ LoopCommand \/ LoopCommandClosed
    \/ LoopClient \/ LoopClientsClosed \/ LoopApiDone \/ LoopPtyDone
    \/ MainLoopReturn \/ MainJoin
    \/ PtyOutput \/ PtyCloseOutput \/ PtyComplete
    \/ \E c \in Clients : SubRequest(c)
    \/ \E c \in Clients : SubRequestFail(c)
    \/ \E c \in Clients : ObserverRecv(c)
    \/ StdioEnd
    \/ EncConnect \/ EncSignalReady \/ EncRecv

Spec == Init /\ [][Next]_vars

\* The steps of the orchestrator task and of the encoder task. The runtime keeps
\* scheduling a task that can run; the select loop takes a branch that stays
\* ready.
MainStep ==
    \/ MainRecvClient \/ MainRecvNone \/ MainAwaitReady \/ MainStartPty
    \/ LoopOutput \/ LoopOutputClosed \/ LoopCommandClosed
    \/ LoopClient \/ LoopClientsClosed \/ LoopApiDone \/ LoopPtyDone
    \/ MainLoopReturn \/ MainJoin
EncStep ==
    \/ EncConnect \/ EncSignalReady \/ EncRecv
    \/ SubRequest("enc") \/ SubRequestFail("enc")

\* Spec with the tasks of the program scheduled fairly. Nothing is assumed of
\* the environment: the child may run for ever, stdin may stay open and silent.
LiveSpec == Spec /\ WF_vars(MainStep) /\ WF_vars(EncStep)

TypeOK ==
    /\ cfg \in Configs
    /\ mainPc \in {"recv_client", "await_ready", "spawn", "loop", "sleep", "join",
                   "exited", "failed"}
    /\ exitCode \in {-1, 0, 1} \cup Statuses
    /\ Len(clientsQ) <= ClientsCap
    /\ \A c \in Clients : pos[c] <= Len(pub) /\ subAt[c] <= pos[c]
    /\ ready \in {"pending", "sent", "dropped"}

\* ---------------------------------------------------------- session harness
\* The session as a component: resize, output, set_pid, subscribe and the polling
\* of a subscriber's stream, called in any order, as a client of the HTTP API
\* that attaches at any moment would cause them to be.
SessMutator(kind) ==
    /\ Len(pub) < MaxPub
    /\ Publish(Ev(kind, 0))
    /\ UNCHANGED <<fmtVars, cfg, brokeBy, mainVars, clientsQ, subPc, streamVars, busClosed, pid,
                   ready, ptyVars, cmds, inputFwd, encVars>>

SessSetPid ==
    /\ pid = 0
    /\ pid' = 1
    /\ UNCHANGED <<fmtVars, cfg, brokeBy, mainVars, clientsQ, subPc, streamVars, pub, busClosed,
                   ready, ptyVars, cmds, inputFwd, encVars>>

SessSubscribe(c) ==
    /\ subPc[c] \in {"idle", "connect"}
    /\ Subscribe(c)
    /\ UNCHANGED <<fmtVars, cfg, brokeBy, mainVars, clientsQ, pub, busClosed, pid, ready, ptyVars,
                   cmds, inputFwd, encVars>>

SessPoll(c) ==
    /\ subPc[c] \in {"accepted", "open"}
    /\ NextItem(c).k \in {"Init", "Ev", "Lagged"}
    /\ Advance(c)
    /\ UNCHANGED <<fmtVars, cfg, brokeBy, mainVars, clientsQ, subPc, pub, busClosed, pid, ready,
                   ptyVars, cmds, inputFwd, encVars>>

SessNext ==
    \/ SessMutator("Resize")
    \/ SessMutator("Output")
    \/ SessSetPid
    \/ \E c \in Clients : SessSubscribe(c)
    \/ \E c \in Clients : SessPoll(c)

SessionSpec == Init /\ [][SessNext]_vars

\* ---------------------------------------------------------- encoder harness
\* The recorder and the two streamers as components: handle_event and
\* encode_event applied to any sequence of events at any spacing in time, as the
\* golden tests drive them, with the recorder rebuilt on the same path.

ExitStatuses == {-1, 0}
\* What an event stream can yield: an event, or Err(Lagged).
FmtEvents == {Ev(t, 0) : t \in {"Init", "Output", "Resize", "Marker", "Input", "Snapshot",
                                "Lagged"}}
               \cup {Ev("Exit", st) : st \in ExitStatuses}
\* --idle-time-limit <SECONDS>: an unvalidated f64 (cli.rs:45)
IdleLimits == {None, Some(-1), Some(1)}
Options == [append : BOOLEAN, idle_time_limit : IdleLimits, capture_input : BOOLEAN]

Min(a, b) == IF a <= b THEN a ELSE b

\* i32::to_string
to_string(n) == CASE n = 0 -> "0" [] n = -1 -> "-1" [] OTHER -> "n"

\* One line of the file or one text frame: a JSON value followed by a newline.
\* dtype is the JSON type of the third element: "str" (its text in str) or "num"
\* (its value in num); the header is an object.
Line(code, interval, dtype, str, num) ==
    [code |-> code, interval |-> interval, dtype |-> dtype, str |-> str, num |-> num]

\* asciicast_v3.rs:130-186  write_header; asciinema_server.rs:282-310
HeaderLine == Line("hdr", 0, "obj", "", 0)

\* asciicast_v3.rs:188-195  json!([interval, code, data]) with data: &str
write_event(interval, code, data) == Line(code, interval, "str", data, 0)

\* Mutant: the number is written as its text.
write_event_with_number_AsString(interval, code, data) ==
    Line(code, interval, "str", to_string(data), 0)

\* asciicast_v3.rs:197-204  json!([interval, code, data]) with data: i32
write_event_with_number(interval, code, data) == Line(code, interval, "num", "", data)

\* Mutant: the idle time limit is not applied.
calculate_interval_NoClamp(r) ==
    IF r.last_event_time.some THEN now - r.last_event_time.v ELSE 0

\* asciicast_v3.rs:206-222  the value calculate_interval returns (f64::min)
calculate_interval(r) ==
    LET interval == IF r.last_event_time.some THEN now - r.last_event_time.v ELSE 0
    IN  IF opt.idle_time_limit.some THEN Min(interval, opt.idle_time_limit.v) ELSE interval

\* writeln!(self.writer, ..): the line goes to the BufWriter
writeln(r, line) == [r EXCEPT !.buf = Append(@, line)]

\* Mutant: nothing is flushed.
flush_Nothing(r) == [rec |-> r, out |-> <<>>]

\* self.writer.flush(): the buffered lines reach the file
flush(r) == [rec |-> [r EXCEPT !.buf = <<>>], out |-> r.buf]

\* An event arm: calculate_interval's side effect (asciicast_v3.rs:214), then
\* write_event's writeln! and flush (asciicast_v3.rs:190-193, 199-202)
Wrote(r, line) == flush(writeln([r EXCEPT !.last_event_time = Some(now)], line))

\* Mutant: the Init arm replays init_seq as an output line.
RecorderInitArm_ReplaysSeq(r) ==
    [rec |-> [header_written |-> TRUE, last_event_time |-> Some(now), buf |-> r.buf],
     out |-> (IF ~r.header_written \/ ~opt.append THEN <<HeaderLine>> ELSE <<>>)
               \o <<write_event(0, "o", "seq")>>]

\* asciicast_v3.rs:84-94  handle_event, the Init arm; write_header ends with
\* writeln! and flush (183-184)
RecorderInitArm(r) ==
    IF ~r.header_written \/ ~opt.append
    THEN flush(writeln([header_written |-> TRUE, last_event_time |-> Some(now),
                        buf |-> r.buf], HeaderLine))
    ELSE [rec |-> [r EXCEPT !.last_event_time = Some(now)], out |-> <<>>]

\* Mutant: an ignored event restarts the interval clock.
handle_event_IgnoredRestartsClock(r, e) ==
    CASE e.type = "Init" -> RecorderInitArm(r)
      [] e.type = "Output" -> Wrote(r, write_event(calculate_interval(r), "o", "out"))
      [] e.type = "Resize" -> Wrote(r, write_event(calculate_interval(r), "r", "80x24"))
      [] e.type = "Marker" -> Wrote(r, write_event(calculate_interval(r), "m", "label"))
      [] e.type = "Input" /\ opt.capture_input ->
             Wrote(r, write_event(calculate_interval(r), "i", "in"))
      [] e.type = "Exit" ->
             Wrote(r, write_event_with_number(calculate_interval(r), "x", e.status))
      [] OTHER -> [rec |-> [r EXCEPT !.last_event_time = Some(now)], out |-> <<>>]

\* asciicast_v3.rs:82-128  handle_event: the recorder afterwards and the lines written
handle_event(r, e) ==
    CASE e.type = "Init" -> RecorderInitArm(r)
      [] e.type = "Output" -> Wrote(r, write_event(calculate_interval(r), "o", "out"))
      [] e.type = "Resize" -> Wrote(r, write_event(calculate_interval(r), "r", "80x24"))
      [] e.type = "Marker" -> Wrote(r, write_event(calculate_interval(r), "m", "label"))
      [] e.type = "Input" /\ opt.capture_input ->
             Wrote(r, write_event(calculate_interval(r), "i", "in"))
      [] e.type = "Exit" ->
             Wrote(r, write_event_with_number(calculate_interval(r), "x", e.status))
      [] OTHER -> [rec |-> r, out |-> <<>>]

\* asciinema_server.rs:357-367  calculate_rel_time_micros (in ticks)
calculate_rel_time_micros(s) ==
    IF s.last_event_time.some THEN now - s.last_event_time.v ELSE 0

\* asciinema_server.rs:369-379  calculate_interval_secs
calculate_interval_secs(s) ==
    IF s.last_event_time.some THEN now - s.last_event_time.v ELSE 0

\* An ALiS frame: its type byte, its id (last_id for Init) and its rel_time.
Frame(code, id, rel_time) == [code |-> code, id |-> id, rel_time |-> rel_time]

\* Mutant: Resize frames reuse the current id.
AlisSent_ResizeKeepsId(s, code) ==
    LET id == IF code = "r" THEN s.event_id ELSE s.event_id + 1
    IN  [stm |-> [event_id |-> id, last_event_time |-> Some(now)],
         out |-> <<Frame(code, id, calculate_rel_time_micros(s))>>]

\* asciinema_server.rs:230-263  an event arm of encode_alis_event: self.event_id += 1,
\* rel_time, one binary frame
AlisSent(s, code) ==
    [stm |-> [event_id |-> s.event_id + 1, last_event_time |-> Some(now)],
     out |-> <<Frame(code, s.event_id + 1, calculate_rel_time_micros(s))>>]

\* Mutant: an ignored event consumes an id.
encode_alis_event_IgnoredTakesId(s, e) ==
    CASE e.type = "Init" -> [stm |-> [s EXCEPT !.last_event_time = Some(now)],
                             out |-> <<Frame("init", s.event_id, 0)>>]
      [] e.type = "Output" -> AlisSent(s, "o")
      [] e.type = "Resize" -> AlisSent(s, "r")
      [] e.type = "Marker" -> AlisSent(s, "m")
      [] e.type = "Input" /\ opt.capture_input -> AlisSent(s, "i")
      [] e.type = "Exit" -> AlisSent(s, "x")
      [] OTHER -> [stm |-> [s EXCEPT !.event_id = @ + 1], out |-> <<>>]

\* asciinema_server.rs:210-271  encode_alis_event
encode_alis_event(s, e) ==
    CASE e.type = "Init" -> [stm |-> [s EXCEPT !.last_event_time = Some(now)],
                             out |-> <<Frame("init", s.event_id, 0)>>]
      [] e.type = "Output" -> AlisSent(s, "o")
      [] e.type = "Resize" -> AlisSent(s, "r")
      [] e.type = "Marker" -> AlisSent(s, "m")
      [] e.type = "Input" /\ opt.capture_input -> AlisSent(s, "i")
      [] e.type = "Exit" -> AlisSent(s, "x")
      [] OTHER -> [stm |-> s, out |-> <<>>]

V3Sent(s, line) == [stm |-> [s EXCEPT !.last_event_time = Some(now)], out |-> <<line>>]

\* asciinema_server.rs:273-355  encode_v3_event
encode_v3_event(s, e) ==
    CASE e.type = "Init" -> [stm |-> [s EXCEPT !.last_event_time = Some(now)],
                             out |-> <<HeaderLine, Line("o", 0, "str", "seq", 0)>>]
      [] e.type = "Output" -> V3Sent(s, Line("o", calculate_interval_secs(s), "str", "out", 0))
      [] e.type = "Resize" ->
             V3Sent(s, Line("r", calculate_interval_secs(s), "str", "80x24", 0))
      [] e.type = "Marker" ->
             V3Sent(s, Line("m", calculate_interval_secs(s), "str", "label", 0))
      [] e.type = "Input" /\ opt.capture_input ->
             V3Sent(s, Line("i", calculate_interval_secs(s), "str", "in", 0))
      [] e.type = "Exit" ->
             V3Sent(s, Line("x", calculate_interval_secs(s), "str", to_string(e.status), 0))
      [] OTHER -> [stm |-> s, out |-> <<>>]

\* Time passes. The clock is read by the encoders only, and only differences of
\* readings are used: it is started with the first item.
Tick ==
    /\ now < MaxTime
    /\ delivered > 0
    /\ now' = now + 1
    /\ UNCHANGED <<progVars, codecVars, opt, rec, file, runStart, stm, alisFrames, v3Frames,
                   ev, delivered, runs, trail>>

\* The history after the item e: the time of the recorder's and of the ALiS
\* streamer's latest emission (line written, frame sent) in this run, and whether
\* none, one or several Inits were yielded.
Trailed(e) ==
    IF e.type = "Lagged" THEN trail
    ELSE [rec |-> IF handle_event(rec, e).out # <<>> THEN Some(now) ELSE trail.rec,
          alis |-> IF encode_alis_event(stm["alis"], e).out # <<>> THEN Some(now) ELSE trail.alis,
          inits |-> IF e.type = "Init" THEN Min(trail.inits + 1, 2) ELSE trail.inits]

\* asciicast_v3.rs:66-76, asciinema_server.rs:89-105  one round of each run loop on
\* the same item: Ok(event) is handled or encoded and written, Err(_) is skipped.
Deliver(e) ==
    /\ delivered < MaxEvents
    /\ delivered' = delivered + 1
    /\ ev' = e
    /\ IF e.type = "Lagged"
       THEN UNCHANGED <<rec, file, stm, alisFrames, v3Frames>>
       ELSE /\ rec' = handle_event(rec, e).rec
            /\ file' = file \o handle_event(rec, e).out
            /\ stm' = [alis |-> encode_alis_event(stm["alis"], e).stm,
                       v3 |-> encode_v3_event(stm["v3"], e).stm]
            /\ alisFrames' = alisFrames \o encode_alis_event(stm["alis"], e).out
            /\ v3Frames' = v3Frames \o encode_v3_event(stm["v3"], e).out
    /\ trail' = Trailed(e)
    /\ UNCHANGED <<progVars, codecVars, now, opt, runStart, runs>>

\* The streams end (asciicast_v3.rs:78-79 flush; every write was flushed already)
\* and the encoders are built again on the same path: asciicast_v3.rs:40-58 opens
\* the file for append or truncates it. A stream yields at least its Init before
\* it ends.
NewRun ==
    /\ runs < MaxRuns
    /\ ev # NoEvent
    /\ runs' = runs + 1
    /\ rec' = NewRecorder
    /\ file' = IF opt.append THEN file \o rec.buf ELSE <<>>
    /\ runStart' = IF opt.append THEN Len(file \o rec.buf) ELSE 0
    /\ stm' = [p \in {"alis", "v3"} |-> NewStreamer]
    /\ alisFrames' = <<>>
    /\ v3Frames' = <<>>
    /\ ev' = NoEvent
    /\ trail' = NoTrail
    /\ UNCHANGED <<progVars, codecVars, now, opt, delivered>>

FmtInit ==
    /\ ProgInit
    /\ cfg = [mode |-> "record", protocol |-> "file", capture_input |-> FALSE,
              append |-> TRUE]
    /\ now = 0
    /\ opt \in Options
    /\ rec = NewRecorder
    /\ file = <<>>
    /\ runStart = 0
    /\ stm = [p \in {"alis", "v3"} |-> NewStreamer]
    /\ alisFrames = <<>>
    /\ v3Frames = <<>>
    /\ ev = NoEvent
    /\ delivered = 0
    /\ runs = 1
    /\ trail = NoTrail
    /\ CodecIdle

FmtNext ==
    \/ Tick
    \/ NewRun
    \/ \E e \in FmtEvents : Deliver(e)

FormatSpec == FmtInit /\ [][FmtNext]_vars

\* ------------------------------------------------------------ codec harness
\* The pure functions of alis.rs that encode a theme, applied to one input each,
\* and the streamer's handling of an Init under a configured theme.

\* The characters colour strings are made of here: '#', hexadecimal digits of
\* either case, a letter that is no digit, and a sign.
Chars == {"#", "0", "a", "F", "z", "+"}

\* char::to_digit(16); -1 stands for None
to_digit(ch) ==
    CASE ch = "0" -> 0
      [] ch = "a" -> 10
      [] ch = "F" -> 15
      [] OTHER -> -1

Colors == UNION {[1..n -> Chars] : n \in 0..MaxColorLen}

\* The colours themes are built of: a well-formed one, one without the '#', and
\* a malformed one.
GoodColor == <<"#", "0", "a", "F", "0", "a", "F">>
BareColor == <<"F", "F", "0", "0", "a", "a">>
BadColor == <<"#", "z", "z">>

\* Palettes of every length up to MaxPalette with at most one entry that is not
\* the well-formed colour.
Palettes ==
    {[i \in 1..n |-> IF i = b THEN c ELSE GoodColor] :
        n \in 0..MaxPalette, b \in 0..MaxPalette, c \in {BareColor, BadColor}}

\* alis.rs:62-68  struct Theme, as Option<&Theme>
Themes ==
    {NoTheme} \cup {Some(t) : t \in [fg : {GoodColor, BareColor, BadColor},
                                  bg : {GoodColor, BadColor},
                                  palette : Palettes]}

\* alis.rs:24-28  enum ThemeFormat
ThemeFormat_None == 0
ThemeFormat_Palette8 == 8
ThemeFormat_Palette16 == 16
\* alis.rs:13-19  enum EventType
EventType_Init == 1
EventType_EOT == 4
EventType_Output == 111
EventType_Input == 105
EventType_Resize == 114
EventType_Marker == 109
EventType_Exit == 120

\* str::trim_start_matches('#'): every leading '#' is removed
RECURSIVE trim_start_matches(_)
trim_start_matches(str) ==
    IF str # <<>> /\ Head(str) = "#" THEN trim_start_matches(Tail(str)) ELSE str

\* The value of a string of hexadecimal digits.
RECURSIVE Digits16(_)
Digits16(str) ==
    IF str = <<>> THEN 0
    ELSE 16 * Digits16(SubSeq(str, 1, Len(str) - 1)) + to_digit(str[Len(str)])

\* u8::from_str_radix(src, 16): an empty string and a lone sign are errors, one
\* leading '+' is accepted, then every character must be a digit and the value
\* must fit a u8.
from_str_radix(src) ==
    LET digits == IF src # <<>> /\ Head(src) = "+" THEN Tail(src) ELSE src
    IN  IF digits = <<>> \/ \E i \in 1..Len(digits) : to_digit(digits[i]) = -1
        THEN Err
        ELSE IF Digits16(digits) > 255 THEN Err
        ELSE Ok(Digits16(digits))

\* alis.rs:127-139  parse_color
parse_color(color) ==
    LET c == trim_start_matches(color)
        r == from_str_radix(SubSeq(c, 1, 2))
        g == from_str_radix(SubSeq(c, 3, 4))
        b == from_str_radix(SubSeq(c, 5, 6))
    IN  IF Len(c) # 6 THEN Err
        ELSE IF r.ok /\ g.ok /\ b.ok THEN Ok(<<r.val, g.val, b.val>>)
        ELSE Err

\* The concatenation of the first n sequences of f.
RECURSIVE Concat(_, _)
Concat(f, n) == IF n = 0 THEN <<>> ELSE Concat(f, n - 1) \o f[n]

\* alis.rs:82-99, 100-117  a palette branch of encode_theme: the format byte, fg,
\* bg, then n triples, the palette's colours first and 00 00 00 for the missing
\* ones; the first colour that does not parse fails the whole encoding.
EncodePalette(theme, format, n) ==
    LET fg_rgb == parse_color(theme.fg)
        bg_rgb == parse_color(theme.bg)
        rgb == [i \in 1..n |-> IF i <= Len(theme.palette)
                               THEN parse_color(theme.palette[i])
                               ELSE Ok(<<0, 0, 0>>)]
    IN  IF fg_rgb.ok /\ bg_rgb.ok /\ \A i \in 1..n : rgb[i].ok
        THEN Ok(<<format>> \o fg_rgb.val \o bg_rgb.val \o Concat([i \in 1..n |-> rgb[i].val], n))
        ELSE Err

\* alis.rs:71-124  encode_theme
encode_theme(theme) ==
    IF ~theme.some THEN Ok(<<ThemeFormat_None>>)
    ELSE LET palette_len == Len(theme.v.palette)
         IN  IF palette_len = 0 THEN Ok(<<ThemeFormat_None>>)
             ELSE IF palette_len <= 8 THEN EncodePalette(theme.v, ThemeFormat_Palette8, 8)
             ELSE EncodePalette(theme.v, ThemeFormat_Palette16, 16)

\* A u64 is the sequence of its 64 bits, the least significant first.
U64Bits == 64

\* 2^k
RECURSIVE Pow2(_)
Pow2(k) == IF k = 0 THEN 1 ELSE 2 * Pow2(k - 1)

\* `n as u64` of a non-negative n below 2^31 (a u16, a usize length, a small id)
U64(n) == [i \in 1..U64Bits |-> IF i <= 31 THEN (n \div Pow2(i - 1)) % 2 ELSE 0]

\* `status as u64` of an i32: the two's complement bits, sign-extended
I32AsU64(status) ==
    IF status >= 0 THEN U64(status)
    ELSE [i \in 1..U64Bits |-> IF i <= 31 THEN 1 - ((((-status) - 1) \div Pow2(i - 1)) % 2) ELSE 1]

\* Mutant: the cast saturates.
AsU16_Saturating(n) == IF n > 65535 THEN 65535 ELSE n

\* `cols as u16` of a usize: the low 16 bits
AsU16(n) == n % 65536

\* (val & 0x7F) as u8
Low7(val) == val[1] + 2 * val[2] + 4 * val[3] + 8 * val[4] + 16 * val[5] + 32 * val[6] + 64 * val[7]

\* val >> 7
Shr7(val) == [i \in 1..U64Bits |-> IF i + 7 <= U64Bits THEN val[i + 7] ELSE 0]

\* Mutant: the continuation bit is set on the last byte too.
RECURSIVE encode_leb128_ContinuesLast(_)
encode_leb128_ContinuesLast(value) ==
    IF \E i \in 1..U64Bits : Shr7(value)[i] = 1
    THEN <<Low7(value) + 128>> \o encode_leb128_ContinuesLast(Shr7(value))
    ELSE <<Low7(value) + 128>>

\* alis.rs:32-52  encode_leb128: byte = val & 0x7F; val >>= 7; the byte gets 0x80
\* while val != 0
RECURSIVE encode_leb128(_)
encode_leb128(value) ==
    IF \E i \in 1..U64Bits : Shr7(value)[i] = 1
    THEN <<Low7(value) + 128>> \o encode_leb128(Shr7(value))
    ELSE <<Low7(value)>>

\* alis.rs:54-59  encode_string, of a string given as its bytes
encode_string(bytes) == encode_leb128(U64(Len(bytes))) \o bytes

\* alis.rs:142-161  encode_init
encode_init(last_id, rel_time, cols, rows, theme, init_data) ==
    IF encode_theme(theme).ok
    THEN Ok(<<EventType_Init>> \o encode_leb128(last_id) \o encode_leb128(rel_time)
            \o encode_leb128(U64(cols)) \o encode_leb128(U64(rows)) \o encode_theme(theme).val
            \o encode_string(init_data))
    ELSE Err

\* Terminal widths of Init events: one and two LEB128 bytes.
InitCols == {80, 200}

ParseColor ==
    /\ res = Unset
    /\ arg.kind = "color"
    /\ res' = [fn |-> "parse_color", r |-> parse_color(arg.v), sent |-> <<>>]
    /\ UNCHANGED <<progVars, now, opt, rec, file, runStart, stm, alisFrames, v3Frames, ev,
                   delivered, runs, trail, arg, loc>>

EncodeTheme ==
    /\ res = Unset
    /\ arg.kind = "theme"
    /\ res' = [fn |-> "encode_theme", r |-> encode_theme(arg.v), sent |-> <<>>]
    /\ UNCHANGED <<progVars, now, opt, rec, file, runStart, stm, alisFrames, v3Frames, ev,
                   delivered, runs, trail, arg, loc>>

EncodeInit(cols) ==
    /\ res = Unset
    /\ arg.kind = "theme"
    /\ res' = [fn |-> "encode_init", r |-> encode_init(U64(0), U64(0), cols, 24, arg.v, <<>>),
               sent |-> <<>>]
    /\ UNCHANGED <<progVars, now, opt, rec, file, runStart, stm, alisFrames, v3Frames, ev,
                   delivered, runs, trail, arg, loc>>

\* asciinema_server.rs:91-98, 214-228  the ALiS streamer, with arg as its
\* config.theme, is given an Init: encode_init(self.event_id, 0, cols, rows, theme,
\* seq)?, and the frame is sent if there is one; an Err ends run().
StreamerHandleInit(cols) ==
    /\ res = Unset
    /\ arg.kind = "theme"
    /\ LET r == encode_init(U64(NewStreamer.event_id), U64(0), cols, 24, arg.v, <<>>)
       IN  res' = [fn |-> "streamer", r |-> r, sent |-> IF r.ok THEN <<r.val>> ELSE <<>>]
    /\ UNCHANGED <<progVars, now, opt, rec, file, runStart, stm, alisFrames, v3Frames, ev,
                   delivered, runs, trail, arg, loc>>

CodecInit ==
    /\ ProgInit
    /\ cfg = [mode |-> "stream", protocol |-> "alis", capture_input |-> FALSE,
              append |-> FALSE]
    /\ FmtIdle
    /\ \/ arg \in [kind : {"color"}, v : Colors]
       \/ arg \in [kind : {"theme"}, v : Themes]
    /\ res = Unset
    /\ loc = NewLocal

CodecNext ==
    \/ ParseColor
    \/ EncodeTheme
    \/ \E cols \in InitCols : EncodeInit(cols)
    \/ \E cols \in InitCols : StreamerHandleInit(cols)

CodecSpec == CodecInit /\ [][CodecNext]_vars

\* ------------------------------------------------------- wire-format harness
\* The frame encoders of alis.rs applied to one input each.

\* u64 values: every value up to MaxLebValue, every power of two, and every value
\* 2^k - 1 (u64::MAX is the last of them).
\* alis.rs:164-173  encode_output
encode_output(id, rel_time, data) ==
    <<EventType_Output>> \o encode_leb128(id) \o encode_leb128(rel_time) \o encode_string(data)

\* alis.rs:176-185  encode_input
encode_input(id, rel_time, data) ==
    <<EventType_Input>> \o encode_leb128(id) \o encode_leb128(rel_time) \o encode_string(data)

\* alis.rs:188-198  encode_resize (cols, rows: u16)
encode_resize(id, rel_time, cols, rows) ==
    <<EventType_Resize>> \o encode_leb128(id) \o encode_leb128(rel_time)
    \o encode_leb128(U64(cols)) \o encode_leb128(U64(rows))

\* Mutant: rel_time is written before the id.
encode_marker_TimeFirst(id, rel_time, label) ==
    <<EventType_Marker>> \o encode_leb128(rel_time) \o encode_leb128(id) \o encode_string(label)

\* alis.rs:201-210  encode_marker
encode_marker(id, rel_time, label) ==
    <<EventType_Marker>> \o encode_leb128(id) \o encode_leb128(rel_time) \o encode_string(label)

\* Mutant: a negative status is written as its magnitude.
encode_exit_Magnitude(id, rel_time, status) ==
    <<EventType_Exit>> \o encode_leb128(id) \o encode_leb128(rel_time)
    \o encode_leb128(U64(IF status < 0 THEN -status ELSE status))

\* alis.rs:213-222  encode_exit (status: i32)
encode_exit(id, rel_time, status) ==
    <<EventType_Exit>> \o encode_leb128(id) \o encode_leb128(rel_time)
    \o encode_leb128(I32AsU64(status))

\* alis.rs:228-236  encode_eot
encode_eot(id, rel_time) ==
    <<EventType_EOT>> \o encode_leb128(id) \o encode_leb128(rel_time)

\* The ids and times of frames: one, two and three LEB128 bytes, and u64::MAX.
WireIds == {U64(0), U64(1), U64(128), [i \in 1..U64Bits |-> 1]}
WireTimes == {U64(0), U64(1000), U64(16384)}
\* Strings as UTF-8 bytes: empty, ASCII, two-byte characters, and one whose length
\* takes two LEB128 bytes.
WireStrings == {<<>>, <<104>>, <<104, 105>>, <<195, 169>>, [i \in 1..128 |-> 97]}
WireDims == {0, 24, 80, 200, 65535}
WireStatuses == {-2147483647, -129, -1, 0, 3, 255, 2147483647}
WireThemes ==
    {NoTheme,
     Some([fg |-> GoodColor, bg |-> GoodColor, palette |-> <<>>]),
     Some([fg |-> GoodColor, bg |-> GoodColor, palette |-> <<GoodColor>>]),
     Some([fg |-> GoodColor, bg |-> GoodColor, palette |-> [i \in 1..9 |-> GoodColor]]),
     Some([fg |-> BadColor, bg |-> GoodColor, palette |-> <<GoodColor>>])}

\* The arguments of one call of a frame encoder; the fields a type does not
\* take are left at a fixed value.
WireCalls ==
    [type : {"Output", "Input", "Marker"}, id : WireIds, rel_time : WireTimes,
     data : WireStrings, cols : {0}, rows : {0}, status : {0}, theme : {NoTheme}]
    \cup [type : {"Resize"}, id : WireIds, rel_time : WireTimes,
          data : {<<>>}, cols : WireDims, rows : WireDims, status : {0}, theme : {NoTheme}]
    \cup [type : {"Exit"}, id : WireIds, rel_time : WireTimes,
          data : {<<>>}, cols : {0}, rows : {0}, status : WireStatuses, theme : {NoTheme}]
    \cup [type : {"EOT"}, id : WireIds, rel_time : WireTimes,
          data : {<<>>}, cols : {0}, rows : {0}, status : {0}, theme : {NoTheme}]
    \cup [type : {"Init"}, id : WireIds, rel_time : {U64(0)},
          data : WireStrings, cols : {80, 200}, rows : {24}, status : {0}, theme : WireThemes]

\* The encoder of the call's type, applied.
EncodeCall(c) ==
    CASE c.type = "Output" -> Ok(encode_output(c.id, c.rel_time, c.data))
      [] c.type = "Input" -> Ok(encode_input(c.id, c.rel_time, c.data))
      [] c.type = "Marker" -> Ok(encode_marker(c.id, c.rel_time, c.data))
      [] c.type = "Resize" -> Ok(encode_resize(c.id, c.rel_time, c.cols, c.rows))
      [] c.type = "Exit" -> Ok(encode_exit(c.id, c.rel_time, c.status))
      [] c.type = "EOT" -> Ok(encode_eot(c.id, c.rel_time))
      [] c.type = "Init" -> encode_init(c.id, c.rel_time, c.cols, c.rows, c.theme, c.data)

LebInputs ==
    {U64(n) : n \in 0..MaxLebValue}
    \cup {[i \in 1..U64Bits |-> IF i = k THEN 1 ELSE 0] : k \in 1..U64Bits}
    \cup {[i \in 1..U64Bits |-> IF i <= k THEN 1 ELSE 0] : k \in 1..U64Bits}

EncodeLeb128 ==
    /\ res = Unset
    /\ arg.kind = "u64"
    /\ res' = [fn |-> "encode_leb128", r |-> Ok(encode_leb128(arg.v)), sent |-> <<>>]
    /\ UNCHANGED <<progVars, now, opt, rec, file, runStart, stm, alisFrames, v3Frames, ev,
                   delivered, runs, trail, arg, loc>>

\* The dimensions of events (usize): within a u16, its limit, and beyond.
EventDims == {24, 80, 65535, 65536, 65616}

\* asciinema_server.rs:214-227, 237-242  the Init and Resize arms of
\* encode_alis_event: the frame of an event with the given dimensions, for a new
\* streamer without theme.
AlisDimsFrame(type, cols, rows) ==
    IF type = "Init"
    THEN encode_init(U64(NewStreamer.event_id), U64(0), AsU16(cols), AsU16(rows), NoTheme, <<>>)
    ELSE Ok(encode_resize(U64(NewStreamer.event_id + 1), U64(0), AsU16(cols), AsU16(rows)))

StreamerDims ==
    /\ res = Unset
    /\ arg.kind = "dims"
    /\ res' = [fn |-> "streamer_dims", r |-> AlisDimsFrame(arg.v.type, arg.v.cols, arg.v.rows),
               sent |-> <<AlisDimsFrame(arg.v.type, arg.v.cols, arg.v.rows).val>>]
    /\ UNCHANGED <<progVars, now, opt, rec, file, runStart, stm, alisFrames, v3Frames, ev,
                   delivered, runs, trail, arg, loc>>

EncodeFrame ==
    /\ res = Unset
    /\ arg.kind = "call"
    /\ res' = [fn |-> "encode_frame", r |-> EncodeCall(arg.v), sent |-> <<>>]
    /\ UNCHANGED <<progVars, now, opt, rec, file, runStart, stm, alisFrames, v3Frames, ev,
                   delivered, runs, trail, arg, loc>>

WireInit ==
    /\ ProgInit
    /\ cfg = [mode |-> "stream", protocol |-> "alis", capture_input |-> FALSE,
              append |-> FALSE]
    /\ FmtIdle
    /\ \/ arg \in [kind : {"u64"}, v : LebInputs]
       \/ arg \in [kind : {"call"}, v : WireCalls]
       \/ arg \in [kind : {"dims"}, v : [type : {"Init", "Resize"}, cols : EventDims,
                                         rows : EventDims]]
    /\ res = Unset
    /\ loc = NewLocal

WireNext ==
    \/ EncodeLeb128
    \/ EncodeFrame
    \/ StreamerDims

WireSpec == WireInit /\ [][WireNext]_vars

\* ------------------------------------------------------- install-id harness
\* get_install_id applied to one configuration and file system each, followed
\* by the request run() makes with its result.

\* Option<String>::None, the content of a file that cannot be read
NoString == [some |-> FALSE, v |-> <<>>]

\* Strings a value or a file may hold: a token, one wrapped in whitespace, a
\* blank one and the empty one.
IdStrings == {<<"u">>, <<" ", "u", "\n">>, <<"\n">>, <<>>}
OptStrings == {NoString} \cup {Some(str) : str \in IdStrings}

IsWhite(ch) == ch \in {" ", "\n"}

\* str::trim: leading and trailing whitespace removed
RECURSIVE trim(_)
trim(str) ==
    IF str # <<>> /\ IsWhite(Head(str)) THEN trim(Tail(str))
    ELSE IF str # <<>> /\ IsWhite(str[Len(str)]) THEN trim(SubSeq(str, 1, Len(str) - 1))
    ELSE str

\* The streamer's configuration and what it finds on the machine: the
\* configured value, whether a path is configured and what that file holds,
\* whether HOME is set and what $HOME/.config/asciinema/install-id holds.
IdSetups ==
    [install_id : OptStrings, install_id_path : BOOLEAN, path_file : OptStrings,
     home : BOOLEAN, default_file : OptStrings]

\* asciinema_server.rs:113-131  get_install_id
get_install_id(c) ==
    IF c.install_id.some THEN Ok(c.install_id.v)
    ELSE IF c.install_id_path
         THEN (IF c.path_file.some THEN Ok(trim(c.path_file.v)) ELSE Err)
    ELSE IF ~c.home THEN Err
    ELSE IF c.default_file.some THEN Ok(trim(c.default_file.v))
    ELSE Err

\* asciinema_server.rs:67-72  run(): get_install_id()?, then create_stream posts
\* to the server with the id as the Basic-auth password.
ResolveInstallId ==
    /\ res = Unset
    /\ arg.kind = "setup"
    /\ res' = [fn |-> "get_install_id", r |-> get_install_id(arg.v),
               sent |-> IF get_install_id(arg.v).ok THEN <<get_install_id(arg.v).val>> ELSE <<>>]
    /\ UNCHANGED <<progVars, now, opt, rec, file, runStart, stm, alisFrames, v3Frames, ev,
                   delivered, runs, trail, arg, loc>>

InstallIdInit ==
    /\ ProgInit
    /\ cfg = [mode |-> "stream", protocol |-> "alis", capture_input |-> FALSE,
              append |-> FALSE]
    /\ FmtIdle
    /\ arg \in [kind : {"setup"}, v : IdSetups]
    /\ res = Unset
    /\ loc = NewLocal

InstallIdNext == ResolveInstallId

InstallIdSpec == InstallIdInit /\ [][InstallIdNext]_vars

\* --------------------------------------------------- local ALiS handlers
\* handle_alis_binary_socket and handle_alis_binary_socket_stateful, fed the same
\* items of an event stream while the consumer is connected or gone.

\* alis_local.rs:66-115  alis_binary_message: Some(Ok(frame)), None, or
\* Some(Err(_)); the id of an event frame is the event's time, rel_time is 0
alis_binary_message(e) ==
    CASE e.type = "Init" -> [kind |-> "msg", frame |-> Frame("init", 0, 0)]
      [] e.type = "Output" -> [kind |-> "msg", frame |-> Frame("o", now, 0)]
      [] e.type = "Resize" -> [kind |-> "msg", frame |-> Frame("r", now, 0)]
      [] e.type = "Marker" -> [kind |-> "msg", frame |-> Frame("m", now, 0)]
      [] e.type = "Exit" -> [kind |-> "msg", frame |-> Frame("x", now, 0)]
      [] e.type = "Lagged" -> [kind |-> "err", frame |-> Frame("none", 0, 0)]
      [] OTHER -> [kind |-> "none", frame |-> Frame("none", 0, 0)]

\* alis_local.rs:25-32  filter_map(alis_binary_message).forward(&mut sink) on one
\* item: forward ends with the first Err it is given, by the stream or by the
\* sink, and `result?` returns it.
StatelessItem(h, e, up) ==
    LET m == alis_binary_message(e)
    IN  IF m.kind = "none" THEN h
        ELSE IF m.kind = "err" \/ ~up THEN [h EXCEPT !.pc = "err"]
        ELSE [h EXCEPT !.sent = Append(h.sent, m.frame)]

\* alis_local.rs:171-197  an event arm of convert_to_alis_binary
LocalSent(st, code) ==
    [st |-> [event_id |-> st.event_id + 1, last_event_time |-> Some(now)],
     out |-> <<Frame(code, st.event_id + 1, calculate_rel_time_micros(st))>>]

\* alis_local.rs:155-201  convert_to_alis_binary
convert_to_alis_binary(st, e) ==
    CASE e.type = "Init" -> [st |-> [event_id |-> 0, last_event_time |-> Some(now)],
                             out |-> <<Frame("init", 0, 0)>>]
      [] e.type = "Output" -> LocalSent(st, "o")
      [] e.type = "Resize" -> LocalSent(st, "r")
      [] e.type = "Marker" -> LocalSent(st, "m")
      [] e.type = "Exit" -> LocalSent(st, "x")
      [] OTHER -> [st |-> st, out |-> <<>>]

\* alis_local.rs:134-149  one round of the stateful handler's loop: Err(_) is
\* skipped, a message is sent, and a failed send breaks the loop (Ok(()))
StatefulItem(h, e, up) ==
    IF e.type = "Lagged" THEN h
    ELSE LET c == convert_to_alis_binary(h.st, e)
         IN  IF c.out = <<>> THEN [h EXCEPT !.st = c.st]
             ELSE IF up THEN [h EXCEPT !.st = c.st, !.sent = h.sent \o c.out]
             ELSE [h EXCEPT !.st = c.st, !.pc = "ok"]

\* The stream yields e to both handlers; up: the consumer is still connected.
LocalDeliver(e, up) ==
    /\ delivered < MaxEvents
    /\ delivered' = delivered + 1
    /\ ev' = e
    /\ loc' = [stateless |-> IF loc["stateless"].pc = "run"
                             THEN StatelessItem(loc["stateless"], e, up)
                             ELSE loc["stateless"],
               stateful |-> IF loc["stateful"].pc = "run"
                            THEN StatefulItem(loc["stateful"], e, up)
                            ELSE loc["stateful"]]
    /\ UNCHANGED <<progVars, now, opt, rec, file, runStart, stm, alisFrames, v3Frames, runs,
                   trail, arg, res>>

LocalInit ==
    /\ ProgInit
    /\ cfg = [mode |-> "record", protocol |-> "file", capture_input |-> FALSE,
              append |-> TRUE]
    /\ FmtIdle
    /\ CodecIdle

LocalNext ==
    \/ Tick
    \/ \E e \in FmtEvents, up \in BOOLEAN : LocalDeliver(e, up)

LocalSpec == LocalInit /\ [][LocalNext]_vars

\* ------------------------------------------------------------------ claims
\* The stream of client c has been handed over by subscribe().
Subscribed(c) == initPending[c] \/ recvd[c] # <<>>

HasExit == \E i \in 1..Len(pub) : pub[i].type = "Exit"

C2_InitFirst ==
    \A c \in Clients :
        /\ Subscribed(c) => (initPending[c] <=> recvd[c] = <<>>)
        /\ \A j \in 1..Len(recvd[c]) : (recvd[c][j].k = "Init") <=> (j = 1)

\* C2 witness: a subscriber accepted by the event loop after events were
\* published has received its Init and a later event.
C2_Witness ==
    /\ subAt["api"] > 0
    /\ Len(recvd["api"]) >= 2
    /\ recvd["api"][1].k = "Init"

NoLag(c) == \A j \in 1..Len(recvd[c]) : recvd[c][j].k # "Lagged"

\* C3: a subscriber that has not lagged has received, after its Init, exactly
\* the events published after its subscribe(), each once and in sequence, and
\* none published before; with nothing pending it has received all of them.
C3_SubscribeAtomic ==
    \A c \in Clients :
        (Subscribed(c) /\ NoLag(c)) =>
            /\ \A j \in 2..Len(recvd[c]) : recvd[c][j] = Item("Ev", subAt[c] + j - 1)
            /\ (~initPending[c] /\ NextItem(c).k \in {"Wait", "End"}) =>
                   Len(recvd[c]) - 1 = Len(pub) - subAt[c]

\* C3 witness: a late subscriber (events were published before it subscribed
\* and after) that has caught up without lagging.
C3_Witness ==
    /\ subAt["api"] > 0
    /\ NoLag("api")
    /\ Len(recvd["api"]) >= 2
    /\ Len(recvd["api"]) - 1 = Len(pub) - subAt["api"]

\* C5: once Exit is published it is the last event published, there is one
\* Exit, the event loop has stopped, and no subscription starts after it.
C5_NothingAfterExit ==
    HasExit =>
        /\ pub[Len(pub)].type = "Exit"
        /\ \A i \in 1..(Len(pub) - 1) : pub[i].type # "Exit"
        /\ mainPc # "loop"
        /\ \A c \in Clients : Subscribed(c) => subAt[c] < Len(pub)

\* C5 witness: Exit was published after other events, a subscription request
\* is still pending, and the process has gone on to exit.
C5_Witness ==
    /\ HasExit
    /\ Len(pub) >= 2
    /\ clientsQ # <<>>
    /\ mainPc = "exited"

IsEv(it) == it.k = "Ev"

RECURSIVE Accounted(_)
Accounted(seq) ==
    IF seq = <<>> THEN 0
    ELSE Accounted(Tail(seq))
           + (IF Head(seq).k = "Lagged" THEN Head(seq).v
              ELSE IF Head(seq).k = "Ev" THEN 1 ELSE 0)

\* The child's exit status as the program should report it.
ExpectedStatus == IF ptyRes.kind = "ok" THEN ptyRes.status ELSE 1

LoopStopped == mainPc \in {"sleep", "join", "exited", "failed"} /\ brokeBy # "none"

\* C6: when the child has terminated (its PTY task is complete) and the loop
\* has stopped on the output channel closing or on the task completing, an
\* Exit event with the child's status (1 on failure) has been published.
C6_ExitPublishedBeforeStop ==
    (LoopStopped /\ brokeBy \in {"output", "pty"} /\ ptyRes # NoResult) =>
        /\ HasExit
        /\ pub[Len(pub)].status = ExpectedStatus

\* C7: the process exit code is the child's exit status, 1 when the PTY task
\* failed, whichever branch ended the loop after the child was gone.
C7_ExitCodeIsChildStatus ==
    (mainPc = "exited" /\ brokeBy \in {"output", "pty"} /\ ptyRes # NoResult) =>
        exitCode = ExpectedStatus

\* C8: a subscriber more than BroadcastCap events behind gets Lagged next; every
\* Lagged(n) has n > 0; the item after a Lagged(n) is the event right after the
\* n skipped ones; and once nothing is pending, events received plus Lagged
\* counts equal the number of events published since the subscribe().
C8_LagAccounting ==
    \A c \in Clients :
        Subscribed(c) =>
            /\ (~initPending[c] /\ Pending(c) > BroadcastCap) => NextItem(c).k = "Lagged"
            /\ \A j \in 1..Len(recvd[c]) :
                 /\ recvd[c][j].k = "Lagged" => recvd[c][j].v > 0
                 /\ IsEv(recvd[c][j]) =>
                      recvd[c][j].v = subAt[c] + Accounted(SubSeq(recvd[c], 1, j - 1)) + 1
            /\ (~initPending[c] /\ Pending(c) = 0) =>
                 Accounted(recvd[c]) = Len(pub) - subAt[c]

\* C8 witness: a subscriber received Lagged(n), then an event, and has caught up.
C8_Witness ==
    \E c \in Clients :
        /\ Pending(c) = 0
        /\ \E j \in 1..(Len(recvd[c]) - 1) :
             recvd[c][j].k = "Lagged" /\ IsEv(recvd[c][j + 1])

EncGot(k) ==
    /\ Len(recvd'["enc"]) = Len(recvd["enc"]) + 1
    /\ recvd'["enc"][Len(recvd'["enc"])].k = k

EncLast == recvd'["enc"][Len(recvd'["enc"])]

\* C10: on Lagged the recorder/streamer writes nothing and stays running; the
\* next delivered event is encoded; the task ends only at the end of the
\* stream (Ok) or when a write or send fails (Err).
C10_LaggedNotFatal ==
    [][ /\ EncGot("Lagged") => (sink' = sink /\ subPc'["enc"] = "open")
        /\ (EncGot("Ev") /\ subPc'["enc"] = "open") =>
               sink' = sink \o (IF EventCode(pub[EncLast.v]) = "" THEN <<>>
                                ELSE <<Item(EventCode(pub[EncLast.v]), EncLast.v)>>)
        /\ (subPc["enc"] = "open" /\ subPc'["enc"] # "open") =>
               \/ /\ subPc'["enc"] = "ok"
                  /\ busClosed /\ Pending("enc") = 0 /\ ~initPending["enc"]
               \/ /\ subPc'["enc"] = "err"
                  /\ EncGot("Ev") \/ EncGot("Init")
                  /\ Encode(EncLast) # <<>>
      ]_vars

\* C10 witness: the encoder got Lagged, then an event, wrote that event and
\* is still running.
C10_Witness ==
    /\ subPc["enc"] = "open"
    /\ Len(recvd["enc"]) >= 2
    /\ recvd["enc"][Len(recvd["enc"]) - 1].k = "Lagged"
    /\ IsEv(recvd["enc"][Len(recvd["enc"])])
    /\ sink # <<>>
    /\ sink[Len(sink)].v = recvd["enc"][Len(recvd["enc"])].v

\* ------------------------------------------- claims on the encoders (FormatSpec)
\* The step delivers event e to the encoders.
Delivers(e) == delivered' = delivered + 1 /\ ev' = e
\* The lines the step appends to the file.
Appended == SubSeq(file', Len(file) + 1, Len(file'))
IsEventLine(l) == l.code # "hdr"

\* C11: handling an Init event in the file recorder writes no event line (at most
\* the header), and the file never holds an "o" line whose data is the init_seq.
C11_InitWritesNoEventLine ==
    /\ [](\A i \in 1..Len(file) : ~(file[i].code = "o" /\ file[i].str = "seq"))
    /\ [][Delivers(Ev("Init", 0)) =>
            /\ Len(file') >= Len(file)
            /\ \A i \in 1..Len(Appended) : ~IsEventLine(Appended[i])]_vars
\* An Init was handled and wrote the header, and a real output line follows it.
C11_Witness ==
    /\ Len(file) >= 2
    /\ file[Len(file) - 1].code = "hdr"
    /\ file[Len(file)].code = "o"
    /\ ev.type = "Output"

\* C12: in append mode, a file whose first run began with Init holds exactly one
\* header line, at line 1: no later run writes a header.
C12_AppendOneHeader ==
    (opt.append /\ file # <<>> /\ file[1].code = "hdr")
        => \A i \in 2..Len(file) : file[i].code # "hdr"

\* C13: a recorder that began with Init (header written) is Closed once it has
\* written the "x" line: the "x" line is the last line its run writes, whatever
\* events are delivered afterwards.
C13_ClosedAfterExit ==
    (Len(file) > runStart /\ file[runStart + 1].code = "hdr")
        => \A i \in (runStart + 1)..Len(file) : file[i].code = "x" => i = Len(file)

\* C14: with no negative idle time limit in play, the first event line written
\* after the header carries interval 0, whatever time passed since the Init.
C14_FirstIntervalZero ==
    (/\ ~(opt.idle_time_limit.some /\ opt.idle_time_limit.v < 0)
     /\ Len(file) >= runStart + 2
     /\ file[runStart + 1].code = "hdr"
     /\ IsEventLine(file[runStart + 2]))
        => file[runStart + 2].interval = 0

\* C15: every interval written to the file and every rel_time sent on the ALiS
\* stream is >= 0, for every option the command line accepts.
C15_IntervalsNonNegative ==
    /\ \A i \in 1..Len(file) : file[i].interval >= 0
    /\ \A j \in 1..Len(alisFrames) : alisFrames[j].rel_time >= 0

\* Time elapsed since the recorder's previous written event line (or its Init).
Elapsed == IF rec.last_event_time.some THEN now - rec.last_event_time.v ELSE 0

\* C16: with idle_time_limit = L, no interval in the file exceeds L, and an event
\* line written after an elapsed time of at most L carries that time unchanged.
C16_IdleClamp ==
    /\ [](opt.idle_time_limit.some =>
            \A i \in 1..Len(file) :
               IsEventLine(file[i]) => file[i].interval <= opt.idle_time_limit.v)
    /\ [][(opt.idle_time_limit.some /\ delivered' = delivered + 1) =>
            \A i \in 1..Len(Appended) :
               (IsEventLine(Appended[i]) /\ Elapsed <= opt.idle_time_limit.v)
                   => Appended[i].interval = Elapsed]_vars
\* An event line written two ticks after the Init under a limit of one tick.
C16_Witness ==
    /\ opt.idle_time_limit = Some(1)
    /\ delivered = 2 /\ now = 2
    /\ Len(file) = 2 /\ IsEventLine(file[2]) /\ file[2].interval = 1
    /\ rec.last_event_time = Some(2)

C19_StreamEqualsFile ==
    (runs = 1 /\ ~opt.idle_time_limit.some) => v3Frames = file

IsEventFrame(f) == f.code # "init"
\* C20: in the ALiS stream of a fresh streamer, an Init frame sent first carries
\* last_id = 0, the first event frame carries id 1 and the ids of the event
\* frames strictly increase, whatever ignored events and Lagged signals occur.
C20_AlisIdsIncrease ==
    /\ (alisFrames # <<>> /\ ~IsEventFrame(alisFrames[1])) => alisFrames[1].id = 0
    /\ \A i \in 1..Len(alisFrames) :
          IsEventFrame(alisFrames[i]) =>
             /\ (\A h \in 1..(i - 1) : ~IsEventFrame(alisFrames[h])) => alisFrames[i].id = 1
             /\ \A j \in (i + 1)..Len(alisFrames) :
                   IsEventFrame(alisFrames[j]) => alisFrames[i].id < alisFrames[j].id
\* The Init frame and two event frames have been sent.
C20_Witness ==
    /\ Len(alisFrames) = 3
    /\ alisFrames[1].code = "init"
    /\ IsEventFrame(alisFrames[2]) /\ IsEventFrame(alisFrames[3])

\* C26: whenever the recorder waits for its next event, nothing it has written
\* is left in its buffer: every header and event line has reached the file.
C26_FlushedBetweenEvents == rec.buf = <<>>
\* The recorder has written the header and an event line and waits for more.
C26_Witness ==
    /\ Len(file) >= runStart + 2
    /\ file[runStart + 1].code = "hdr"
    /\ IsEventLine(file[runStart + 2])
    /\ rec.buf = <<>>

\* C34: without idle_time_limit the interval of each event line, and the rel_time
\* of each ALiS event frame, is the time elapsed since the encoder's previously
\* emitted line or frame in the stream (hence intervals sum to elapsed time);
\* ignored events and Lagged signals in between remove no time. A stream yields
\* one Init.
C34_IntervalsAreElapsed ==
    [][(delivered' = delivered + 1 /\ trail'.inits <= 1) =>
          /\ (~opt.idle_time_limit.some /\ trail.rec.some /\ Len(file') > Len(file)
                /\ IsEventLine(file'[Len(file')]))
               => file'[Len(file')].interval = now - trail.rec.v
          /\ (trail.alis.some /\ Len(alisFrames') > Len(alisFrames)
                /\ IsEventFrame(alisFrames'[Len(alisFrames')]))
               => alisFrames'[Len(alisFrames')].rel_time = now - trail.alis.v]_vars

\* Init, then an item that is ignored or a Lagged signal, then an event two ticks
\* after the Init: the line and the frame carry 2.
C34_Witness ==
    /\ ~opt.idle_time_limit.some
    /\ runs = 1 /\ delivered = 3 /\ trail.inits = 1
    /\ Len(file) = 2 /\ IsEventLine(file[2]) /\ file[2].interval = 2
    /\ Len(alisFrames) = 2 /\ alisFrames[2].rel_time = 2
    /\ now = 2

\* The event frames of the ALiS stream, in the order sent.
EventFrames == SelectSeq(alisFrames, IsEventFrame)

\* C39: in the server streamer's ALiS stream the ids are contiguous: the k-th
\* event frame carries id k, the streamer's last id is the number of event frames
\* sent, and an Init frame carries as last_id the number of event frames sent
\* before it; ignored events and Lagged signals consume no id.
C39_AlisIdsContiguous ==
    /\ \A k \in 1..Len(EventFrames) : EventFrames[k].id = k
    /\ stm["alis"].event_id = Len(EventFrames)
    /\ \A i \in 1..Len(alisFrames) :
          ~IsEventFrame(alisFrames[i]) =>
              alisFrames[i].id = Len(SelectSeq(SubSeq(alisFrames, 1, i), IsEventFrame))

\* Init, then an ignored event or a Lagged signal, then an event: its frame
\* carries id 1.
C39_Witness ==
    /\ runs = 1 /\ delivered = 3
    /\ Len(alisFrames) = 2
    /\ alisFrames[1] = Frame("init", 0, 0)
    /\ IsEventFrame(alisFrames[2]) /\ alisFrames[2].id = 1
    /\ stm["alis"].event_id = 1

\* -------------------------------------------------- claims on the program (Spec)
\* The loop takes an Input command.
InputStep == cmds' = cmds + 1 /\ (pub' = pub \/ pub' = Append(pub, Ev("Input", 0)))
\* The "i" lines or Input frames written for the event published at idx.
InputLines(idx) == {j \in 1..Len(sink) : sink[j] = Item("i", idx)}
EncHandled(idx) == \E j \in 1..Len(recvd["enc"]) : recvd["enc"][j] = Item("Ev", idx)

\* C17: with capture_input disabled no Input event is published and no "i" line
\* or Input frame is ever written, while every Input command is still forwarded
\* to the PTY (the send fails, and ends the loop, only when the PTY task is
\* over); with capture_input enabled every Input command publishes one Input
\* event, which the encoder that handles it writes exactly once.
C17_CaptureInput ==
    /\ [](~cfg.capture_input =>
            /\ \A j \in 1..Len(sink) : sink[j].k # "i"
            /\ \A i \in 1..Len(pub) : pub[i].type # "Input")
    /\ [](cfg.capture_input =>
            \A idx \in 1..Len(pub) :
               pub[idx].type = "Input" =>
                  /\ Cardinality(InputLines(idx)) <= 1
                  /\ (EncHandled(idx) /\ subPc["enc"] # "err")
                        => Cardinality(InputLines(idx)) = 1)
    /\ [][InputStep =>
            /\ cfg.capture_input <=> pub' # pub
            /\ \/ inputFwd' = inputFwd + 1
               \/ ptyRes # NoResult /\ mainPc' = "failed"]_vars
\* With capture disabled, an Input command was taken and forwarded while the
\* encoder was writing.
C17_Witness ==
    /\ ~cfg.capture_input
    /\ cmds = 1 /\ inputFwd = 1 /\ pub = <<>>
    /\ sink # <<>>

\* C21: with the ALiS protocol the first frame sent is the magic frame, the Init
\* frame follows it before any event frame, and no other magic frame is sent;
\* with the v3 protocol no magic frame is ever sent.
C21_MagicFirst ==
    /\ (cfg.protocol = "alis" /\ sink # <<>>) =>
          /\ sink[1].k = "magic"
          /\ Len(sink) >= 2 => sink[2].k = "init"
          /\ \A j \in 2..Len(sink) : sink[j].k # "magic"
    /\ (cfg.protocol = "alis" /\ subPc["enc"] \in {"idle", "accepted", "open", "ok"})
          => sink # <<>>
    /\ cfg.protocol # "alis" => \A j \in 1..Len(sink) : sink[j].k # "magic"
\* The ALiS streamer has sent the magic frame, the Init frame and an event frame.
C21_Witness ==
    /\ cfg.protocol = "alis"
    /\ Len(sink) >= 3
    /\ sink[3].k \in {"o", "r", "m", "i", "x"}

\* C22: in the server streamer the first failed send aborts the task: the failed
\* event's remaining frames are not sent, and once aborted it sends nothing,
\* consumes nothing and stays failed; a send failure is never passed over; when no
\* send fails the WebSocket is closed at the end of the stream and the task
\* returns Ok.
C22_SendFailureAborts ==
    /\ [](cfg.mode = "stream" =>
            /\ \A j \in 1..Len(sink) : sink[j].k = "close" => j = Len(sink)
            /\ subPc["enc"] = "ok" <=> (sink # <<>> /\ sink[Len(sink)].k = "close"))
    /\ [][cfg.mode = "stream" =>
            /\ subPc["enc"] = "err" =>
                  /\ sink' = sink
                  /\ recvd'["enc"] = recvd["enc"]
                  /\ subPc'["enc"] = "err"
            /\ (subPc["enc"] = "open" /\ subPc'["enc"] = "err") =>
                  /\ EncGot("Ev") \/ EncGot("Init")
                  /\ Len(sink') - Len(sink) < Len(Encode(EncLast))
            /\ ((EncGot("Ev") \/ EncGot("Init")) /\ subPc'["enc"] = "open") =>
                  sink' = sink \o Encode(EncLast)
            /\ (subPc["enc"] = "open" /\ subPc'["enc"] = "ok") =>
                  /\ busClosed /\ Pending("enc") = 0
                  /\ sink' = Append(sink, Item("close", 0))]_vars
\* A send failed after frames had been sent, and the session went on publishing.
C22_Witness ==
    /\ cfg.mode = "stream"
    /\ subPc["enc"] = "err"
    /\ recvd["enc"] # <<>>
    /\ Len(pub) > pos["enc"]

\* C25: once the main event loop has ended, for whatever reason, the process
\* exits only after the recorder/streamer task has returned.
C25_ExitAfterEncoderReturned ==
    (~Alive /\ ptyPc = "running") => EncEnded

\* Resize events among the first n published ones.
ResizesIn(n) == Cardinality({i \in 1..n : pub[i].type = "Resize"})

\* C27: the Init a subscriber is given carries the size of the latest Resize
\* processed before its subscribe (the configured size when there was none) and
\* the pid of that moment, 0 before set_pid and the child's afterwards; once
\* built it does not change.
C27_InitCarriesStateAtSubscribe ==
    /\ [](\A c \in Clients : Subscribed(c) => initSnap[c].size = ResizesIn(subAt[c]))
    /\ [][\A c \in Clients :
            IF initPending'[c] /\ ~initPending[c]
            THEN initSnap'[c].pid = pid
            ELSE initSnap'[c] = initSnap[c]]_vars
    /\ [][pid' # pid => (pid = 0 /\ pid' = 1)]_vars

\* A late joiner has received an Init with the resized dimensions and the
\* child's pid.
C27_Witness ==
    /\ recvd["api"] # <<>> /\ recvd["api"][1] = InitItem
    /\ initSnap["api"] = [size |-> 2, pid |-> 1]
    /\ recvd["enc"] # <<>> /\ recvd["enc"][1] = InitItem
    /\ initSnap["enc"] = [size |-> 0, pid |-> 0]
    /\ ResizesIn(Len(pub)) = 3

\* C38: no PTY output is lost at shutdown: once the PTY task has completed, the
\* Exit event is published, and the event loop stops, only after every chunk
\* the PTY put on the output channel has been published as an Output event.
C38_NoOutputLost ==
    (ptyRes # NoResult /\ ((\E i \in 1..Len(pub) : pub[i].type = "Exit") \/ mainPc # "loop"))
        => outQ = <<>>

\* --------------------------------------------- liveness claims (LiveSpec)
\* C23: when the encoder task has failed while the main loop runs, the process
\* eventually terminates, whether or not the child exits.
C23_EncoderFailureTerminates ==
    (subPc["enc"] = "err" /\ mainPc = "loop") ~> ~Alive

\* C24: in stream mode, when the streamer has failed before subscribing, the PTY
\* is never spawned and the process eventually terminates: the orchestrator does
\* not stay waiting for a subscription request or for the ready signal.
C24_StartupFailureExits ==
    /\ []((cfg.mode = "stream" /\ subPc["enc"] = "err" /\ recvd["enc"] = <<>>
             /\ ~initPending["enc"]) => ptyPc = "none")
    /\ (cfg.mode = "stream" /\ subPc["enc"] = "err" /\ mainPc \in {"recv_client", "await_ready"})
          ~> ~Alive

\* C37: the startup handshake cannot deadlock: once the recorder or streamer has
\* reached its subscription request, the orchestrator eventually gets past the
\* ready signal to start_pty, whether the API task's subscription request came
\* before or after.
C37_HandshakeCompletes ==
    (subPc["enc"] \in {"idle", "waiting"} /\ mainPc \in {"recv_client", "await_ready"})
        ~> (mainPc \notin {"recv_client", "await_ready"})

\* ----------------------------------------------- claims on the codec (CodecSpec)
\* A colour string of the form #RRGGBB.
WellFormed(color) ==
    /\ Len(color) = 7
    /\ color[1] = "#"
    /\ \A i \in 2..7 : to_digit(color[i]) >= 0

\* The R, G, B bytes a well-formed colour string denotes.
RGB(color) ==
    <<16 * to_digit(color[2]) + to_digit(color[3]),
      16 * to_digit(color[4]) + to_digit(color[5]),
      16 * to_digit(color[6]) + to_digit(color[7])>>

WellFormedTheme(t) ==
    /\ WellFormed(t.fg)
    /\ WellFormed(t.bg)
    /\ \A i \in 1..Len(t.palette) : WellFormed(t.palette[i])

\* The layout of a configured theme with n triples: format byte, fg, bg, the
\* palette's colours, 00 00 00 for the missing ones.
Layout(t, format, n) ==
    <<format>> \o RGB(t.fg) \o RGB(t.bg)
    \o Concat([i \in 1..n |-> IF i <= Len(t.palette) THEN RGB(t.palette[i]) ELSE <<0, 0, 0>>], n)

\* C28: encode_theme gives the single byte 0x00 exactly when no theme is
\* configured; a configured (well-formed) theme with at most 8 palette entries,
\* none included, gives 0x08 fg bg and 8 triples (31 bytes), one with 9 to 16
\* entries gives 0x10 fg bg and 16 triples (55 bytes).
C28_ThemeLayout ==
    (res.fn = "encode_theme" /\ (arg.v.some => WellFormedTheme(arg.v.v))) =>
        /\ (res.r = Ok(<<0>>)) <=> ~arg.v.some
        /\ (arg.v.some /\ Len(arg.v.v.palette) <= 8) =>
               (res.r = Ok(Layout(arg.v.v, 8, 8)) /\ Len(res.r.val) = 31)
        /\ (arg.v.some /\ Len(arg.v.v.palette) \in 9..16) =>
               (res.r = Ok(Layout(arg.v.v, 16, 16)) /\ Len(res.r.val) = 55)

\* C29: with a configured theme whose fg, bg or some palette colour is not of
\* the form #RRGGBB, encode_init is an error and the streamer sends no Init
\* frame.
C29_MalformedColorFails ==
    (res.fn \in {"encode_init", "streamer"} /\ arg.v.some /\ ~WellFormedTheme(arg.v.v)) =>
        (~res.r.ok /\ res.sent = <<>>)

\* C30: parse_color succeeds exactly on '#' followed by six hexadecimal digits,
\* and then returns the three bytes in R, G, B order.
C30_ParseColorExact ==
    res.fn = "parse_color" =>
        /\ res.r.ok <=> WellFormed(arg.v)
        /\ res.r.ok => res.r.val = RGB(arg.v)

\* --------------------------------------------- claims on the frames (WireSpec)
\* The u64 a LEB128 byte string denotes: 7 bits per byte, the least significant
\* group first; bits beyond the 64th must be absent.
DecodeLeb128(bytes) ==
    [i \in 1..U64Bits |->
        IF (i - 1) \div 7 + 1 <= Len(bytes)
        THEN ((bytes[(i - 1) \div 7 + 1] % 128) \div Pow2((i - 1) % 7)) % 2
        ELSE 0]

\* Number of significant bits of a u64 (0 for zero).
BitLen(val) ==
    IF \A i \in 1..U64Bits : val[i] = 0 THEN 0
    ELSE CHOOSE k \in 1..U64Bits : val[k] = 1 /\ \A i \in (k + 1)..U64Bits : val[i] = 0

\* C31: encode_leb128 is the canonical unsigned LEB128 encoding: decoding gives
\* the value back, the output has ceil(bits(n)/7) bytes (1 for 0), every byte but
\* the last has 0x80 set and the last has it clear; 0, 127, 128, 300, 16384 encode
\* to 00, 7F, 80 01, AC 02, 80 80 01.
C31_Leb128Canonical ==
    res.fn = "encode_leb128" =>
        LET bytes == res.r.val
        IN  /\ DecodeLeb128(bytes) = arg.v
            /\ Len(bytes) = (IF BitLen(arg.v) = 0 THEN 1 ELSE (BitLen(arg.v) + 6) \div 7)
            /\ \A j \in 1..Len(bytes) : bytes[j] \in 0..255 /\ (bytes[j] >= 128 <=> j < Len(bytes))
            /\ (Len(bytes) * 7 > U64Bits) => bytes[Len(bytes)] < Pow2(U64Bits - 7 * (Len(bytes) - 1))
            /\ arg.v = U64(0) => bytes = <<0>>
            /\ arg.v = U64(127) => bytes = <<127>>
            /\ arg.v = U64(128) => bytes = <<128, 1>>
            /\ arg.v = U64(300) => bytes = <<172, 2>>
            /\ arg.v = U64(16384) => bytes = <<128, 128, 1>>

\* 16384 has been encoded in three bytes and u64::MAX in ten.
C31_Witness ==
    /\ res.fn = "encode_leb128"
    /\ \/ arg.v = U64(16384) /\ Len(res.r.val) = 3
       \/ arg.v = [i \in 1..U64Bits |-> 1] /\ Len(res.r.val) = 10

\* The value of a u64 below 2^31.
NatOf(val) == LET S[i \in 0..31] == IF i = 0 THEN 0 ELSE S[i - 1] + val[i] * Pow2(i - 1) IN S[31]

\* Reading one LEB128 number of bytes at position p: the position of its last
\* byte (the first without 0x80), its value, and the position that follows.
LebEnd(bytes, p) == CHOOSE j \in p..Len(bytes) : bytes[j] < 128 /\ \A k \in p..(j - 1) : bytes[k] >= 128
HasLeb(bytes, p) == \E j \in p..Len(bytes) : bytes[j] < 128
LebAt(bytes, p) == DecodeLeb128(SubSeq(bytes, p, LebEnd(bytes, p)))
AfterLeb(bytes, p) == LebEnd(bytes, p) + 1

\* Reading a length-prefixed string at p: its bytes and the position after it.
StringAt(bytes, p) ==
    SubSeq(bytes, AfterLeb(bytes, p), AfterLeb(bytes, p) + NatOf(LebAt(bytes, p)) - 1)
AfterString(bytes, p) == AfterLeb(bytes, p) + NatOf(LebAt(bytes, p))

\* The number of bytes of a theme whose format byte is b.
ThemeLen(b) == IF b = 8 THEN 31 ELSE IF b = 16 THEN 55 ELSE 1

\* What a decoder reads from a frame: type byte, id, rel_time, then the payload
\* of that type; `next` is the position after the last byte read.
DecodeFrame(bytes) ==
    LET pId == 2
        pTime == AfterLeb(bytes, pId)
        pPay == AfterLeb(bytes, pTime)
        head == [type |-> bytes[1], id |-> LebAt(bytes, pId), rel_time |-> LebAt(bytes, pTime)]
    IN  CASE bytes[1] \in {111, 105, 109} ->
                 [head |-> head, data |-> StringAt(bytes, pPay), next |-> AfterString(bytes, pPay)]
          [] bytes[1] = 114 ->
                 [head |-> head, cols |-> LebAt(bytes, pPay),
                  rows |-> LebAt(bytes, AfterLeb(bytes, pPay)),
                  next |-> AfterLeb(bytes, AfterLeb(bytes, pPay))]
          [] bytes[1] = 120 ->
                 [head |-> head, status |-> LebAt(bytes, pPay), next |-> AfterLeb(bytes, pPay)]
          [] bytes[1] = 4 -> [head |-> head, next |-> pPay]
          [] bytes[1] = 1 ->
                 LET pRows == AfterLeb(bytes, pPay)
                     pTheme == AfterLeb(bytes, pRows)
                     pStr == pTheme + ThemeLen(bytes[pTheme])
                 IN  [head |-> head, cols |-> LebAt(bytes, pPay), rows |-> LebAt(bytes, pRows),
                      theme |-> SubSeq(bytes, pTheme, pStr - 1),
                      data |-> StringAt(bytes, pStr), next |-> AfterString(bytes, pStr)]

TypeByte(type) ==
    CASE type = "Init" -> 1
      [] type = "EOT" -> 4
      [] type = "Output" -> 111
      [] type = "Input" -> 105
      [] type = "Resize" -> 114
      [] type = "Marker" -> 109
      [] type = "Exit" -> 120

\* C32: every frame is type byte, LEB128(id), LEB128(rel_time) and the payload of
\* its type, so that a decoder recovers type, id, rel_time and payload, and
\* reads the frame to its end.
C32_FrameLayout ==
    (res.fn = "encode_frame" /\ res.r.ok) =>
        LET c == arg.v
            d == DecodeFrame(res.r.val)
        IN  /\ d.head = [type |-> TypeByte(c.type), id |-> c.id, rel_time |-> c.rel_time]
            /\ d.next = Len(res.r.val) + 1
            /\ c.type \in {"Output", "Input", "Marker", "Init"} => d.data = c.data
            /\ c.type \in {"Resize", "Init"} => (d.cols = U64(c.cols) /\ d.rows = U64(c.rows))
            /\ c.type = "Exit" => d.status = I32AsU64(c.status)
            /\ c.type = "Init" => d.theme = encode_theme(c.theme).val

\* A Marker with a two-byte character, an Init with a 16-colour theme and a
\* string of 128 bytes have been encoded.
C32_Witness ==
    /\ res.fn = "encode_frame" /\ res.r.ok
    /\ \/ arg.v.type = "Marker" /\ arg.v.data = <<195, 169>> /\ arg.v.id = [i \in 1..U64Bits |-> 1]
       \/ arg.v.type = "Init" /\ Len(arg.v.theme.v.palette) = 9 /\ Len(arg.v.data) = 128

\* The low 32 bits of a u64 read as an i32 (`v as i32`).
I32Of(val) == IF val[32] = 1 THEN (NatOf(val) - 1073741824) - 1073741824 ELSE NatOf(val)

\* C33: the payload of an Exit frame decodes to a u64 whose reinterpretation as
\* an i32 is the status, negative ones included, and to the status itself when
\* it is non-negative.
C33_ExitStatusAsUnsigned ==
    (res.fn = "encode_frame" /\ arg.v.type = "Exit") =>
        LET v == DecodeFrame(res.r.val).status
        IN  /\ I32Of(v) = arg.v.status
            /\ arg.v.status >= 0 =>
                   (NatOf(v) = arg.v.status /\ \A i \in 32..U64Bits : v[i] = 0)

\* Status -1 has been encoded: ten payload bytes after type, id 0 and rel_time 0.
C33_Witness ==
    /\ res.fn = "encode_frame" /\ arg.v.type = "Exit"
    /\ arg.v.status = -1 /\ arg.v.id = U64(0) /\ arg.v.rel_time = U64(0)
    /\ Len(res.r.val) = 13

\* C40: the cols and rows an ALiS Init or Resize frame carries are the event's
\* reduced modulo 2^16; the frame is sent whatever the values, and carries the
\* event's dimensions exactly when both are below 65536.
C40_DimsWrap ==
    res.fn = "streamer_dims" =>
        LET d == DecodeFrame(res.r.val)
        IN  /\ res.r.ok /\ res.sent = <<res.r.val>>
            /\ NatOf(d.cols) = arg.v.cols % 65536
            /\ NatOf(d.rows) = arg.v.rows % 65536
            /\ (NatOf(d.cols) = arg.v.cols /\ NatOf(d.rows) = arg.v.rows)
                   <=> (arg.v.cols < 65536 /\ arg.v.rows < 65536)

\* A Resize to 65616 columns has been sent as one to 80 columns.
C40_Witness ==
    /\ res.fn = "streamer_dims" /\ arg.v.type = "Resize"
    /\ arg.v.cols = 65616 /\ arg.v.rows = 24
    /\ DecodeFrame(res.r.val).cols = U64(80)

\* ------------------------------------- claims on the local handlers (LocalSpec)
\* C35: both local handlers answer a Lagged signal by continuing: the connection
\* stays open and nothing is sent for the signal, and the next event that has a
\* frame is encoded and sent.
C35_LocalLaggedContinues ==
    [][\A h \in {"stateless", "stateful"} :
          /\ (delivered' = delivered + 1 /\ ev'.type = "Lagged" /\ loc[h].pc = "run")
               => (loc'[h].pc = "run" /\ loc'[h].sent = loc[h].sent)
          /\ (delivered' = delivered + 1 /\ ev.type = "Lagged" /\ loc'[h].pc = "run"
                /\ ev'.type \in {"Output", "Resize", "Marker", "Exit"})
               => Len(loc'[h].sent) = Len(loc[h].sent) + 1]_vars

\* ------------------------------------ claims on the install-id (InstallIdSpec)
\* The source the precedence selects: the configured value, else the file at the
\* configured path, else the file at the default path under $HOME.
SelectedId(c) ==
    IF c.install_id.some THEN c.install_id
    ELSE IF c.install_id_path THEN c.path_file
    ELSE IF c.home THEN c.default_file
    ELSE NoString

\* C36: the install-id is the trimmed content of the source selected by the
\* precedence value, path, default path; without such a value the streamer
\* fails and makes no request.
C36_InstallIdResolution ==
    res.fn = "get_install_id" =>
        IF SelectedId(arg.v).some
        THEN res.r = Ok(trim(SelectedId(arg.v).v)) /\ res.sent = <<trim(SelectedId(arg.v).v)>>
        ELSE ~res.r.ok /\ res.sent = <<>>

====
